---- MODULE Spec2Model ----
(***************************************************************************)
(* A model of the Lightning tree extension: the configuration tree held by *)
(* LightningDataProvider, the render nodes (LightningTreeItem) that        *)
(* getChildren hands to the host, the quiz from shuffle to reveal, the     *)
(* mute flag of the sound manager, the apply and revert of diffs, the      *)
(* loads of configuration files and their overlap, the label colours kept  *)
(* by LightningDecorationProvider, and the opening of files, dialogs and   *)
(* browsers with the highlights openFile leaves on the editor.             *)
(*                                                                         *)
(* JSON objects are records that carry exactly the keys present in the     *)
(* document; reading an absent key yields `undefined`, as in JavaScript.   *)
(* Optional object references (a command, a lightningItem, the stored      *)
(* configuration) are sequences of length 0 or 1.                          *)
(***************************************************************************)
EXTENDS Integers, Sequences, FiniteSets, TLC

VARIABLES
  disk,           \* the files the user can select: name -> content
  configuration,  \* LightningDataProvider.configuration (None = undefined)
  context,        \* editor context keys set through "setContext"
  loads,          \* setConfigurationFile calls suspended at `await readFile`
  element,        \* argument of the most recent getChildren call
  path,           \* tree position (child indices) of that element
  shown,          \* the render nodes that call returned
  threw,          \* whether that call threw instead of returning
  inherited,      \* the parent colours that call handed to getChildItems
  effects,        \* messages / processes requested by the last handler run
  isSoundMuted,   \* sound-manager's module variable
  quiz,           \* the quiz invocation on display, if any
  diff,           \* the applyDiff / revertDiff call followed, if any
  lastStarted,    \* the file of the suspended call that was made last
  colorMap,       \* LightningDecorationProvider.colorMap, file URIs only
  highlights      \* decoration types openFile created and did not dispose

vars == <<disk, configuration, context, loads, element, path, shown, threw,
          inherited, effects, isSoundMuted, quiz, diff, lastStarted,
          colorMap, highlights>>

-----------------------------------------------------------------------------
(* JavaScript values *)

undefined == "<undefined>"

None == <<>>

Some(x) == <<x>>

\* obj.key
Get(obj, key) == IF key \in DOMAIN obj THEN obj[key] ELSE undefined

\* truthiness of a string-or-undefined value
Truthy(v) == v # undefined /\ v # ""

\* a value that a JSON text can denote without being an object
Primitive(text) == [primitive |-> text]

\* null, false, 0 and the empty string
FalsyPrimitives == { Primitive(t) : t \in {"null", "false", "0", "\"\""} }

\* !v for a parsed document: an object is truthy, these primitives are not
Falsy(v) == v \in FalsyPrimitives

\* a || b
Or(a, b) == IF Truthy(a) THEN a ELSE b

\* { ...obj, k1: v1, ... } : the keys of `over` win
Spread(obj, over) == over @@ obj

-----------------------------------------------------------------------------
(* Bounds of the model *)

MaxChildren == 2

MaxLoads == 2

MaxAnswers == 3

MaxClicks == 2

MaxHighlights == 2

-----------------------------------------------------------------------------
(* lightning-data-provider.ts *)

DEFAULT_ITEM_CONFIG ==
  [ title   |-> [defaultIcon |-> "symbol-event"],
    file    |-> [defaultIcon |-> "file",
                 command |-> [command |-> "lightning.openFile",
                              title |-> "Open File"]],
    dialog  |-> [defaultIcon |-> "comment-discussion",
                 command |-> [command |-> "lightning.showDialog",
                              title |-> "Show Dialog"]],
    folder  |-> [defaultIcon |-> "folder"],
    diff    |-> [defaultIcon |-> "git-pull-request",
                 command |-> [command |-> "lightning.applyDiff",
                              title |-> "Apply Diff"]],
    quiz    |-> [defaultIcon |-> "question",
                 command |-> [command |-> "lightning.showQuiz",
                              title |-> "Show Quiz"]],
    browser |-> [defaultIcon |-> "globe",
                 command |-> [command |-> "lightning.openBrowser",
                              title |-> "Open Browser"]] ]

ItemTypes == DOMAIN DEFAULT_ITEM_CONFIG

\* collapsibleState chosen by the LightningTreeItem constructor
CollapsibleStateOf(lightningItem) ==
  IF lightningItem # None /\ Get(lightningItem[1], "type") = "folder"
    THEN "Collapsed"
    ELSE "None"

\* variant: the type default is taken even when the item has an icon
IconNameOf_DefaultFirst(item) ==
  Or(DEFAULT_ITEM_CONFIG[item.type].defaultIcon, Get(item, "icon"))

\* iconName chosen by the LightningTreeItem constructor
IconNameOf(item) ==
  Or(Get(item, "icon"), DEFAULT_ITEM_CONFIG[item.type].defaultIcon)

\* new LightningTreeItem(label, command, lightningItem, decorationProvider).
\* The registration of the label colour is in setItemColors below; the URI
\* that an item with a label colour and no path gets from its label and
\* Date.now() is not represented: such a node has resourceUri None here.
LightningTreeItem(label, command, lightningItem) ==
  LET collapsibleState == CollapsibleStateOf(lightningItem)
      base == [ label            |-> label,
                tooltip          |-> label,
                collapsibleState |-> collapsibleState,
                command          |-> command,
                lightningItem    |-> lightningItem ]
  IN  IF lightningItem = None
        THEN base @@ [ iconPath     |-> None,
                       resourceUri  |-> None,
                       contextValue |-> undefined ]
        ELSE LET item == lightningItem[1]
             IN  base @@
                 [ iconPath |->
                     Some([ id    |-> IconNameOf(item),
                            color |-> IF Truthy(Get(item, "iconColor"))
                                        THEN item.iconColor
                                        ELSE undefined ]),
                   resourceUri |->
                     IF item.type = "file" /\ Truthy(Get(item, "path"))
                       THEN Some([scheme |-> "file", path |-> item.path])
                       ELSE None,
                   contextValue |->
                     IF collapsibleState \in {"Collapsed", "Expanded"}
                       THEN "folder"
                       ELSE "item" ]

\* variant: a title gets the play-sound command whether or not it has a
\* soundPath
CommandOf_TitleAlways(item) ==
  IF item.type = "title"
    THEN Some([ command   |-> "lightning.playSound",
                title     |-> "Play Sound",
                arguments |-> <<item>> ])
    ELSE LET config == DEFAULT_ITEM_CONFIG[item.type]
         IN  IF "command" \in DOMAIN config
               THEN Some(Spread(config.command, [arguments |-> <<item>>]))
               ELSE None

\* the command getChildItems attaches to one item
CommandOf(item) ==
  IF item.type = "title"
    THEN IF Truthy(Get(item, "soundPath"))
           THEN Some([ command   |-> "lightning.playSound",
                       title     |-> "Play Sound",
                       arguments |-> <<item>> ])
           ELSE None
    ELSE LET config == DEFAULT_ITEM_CONFIG[item.type]
         IN  IF "command" \in DOMAIN config
               THEN Some(Spread(config.command, [arguments |-> <<item>>]))
               ELSE None

\* variant: the parent's colour is preferred to the item's own
EffectiveIconColor_ParentFirst(item, parentIconColor) ==
  Or(parentIconColor,
     Or(Get(item, "iconColor"),
        IF item.type = "folder" THEN Get(item, "folderIconColor")
                                ELSE undefined))

\* the iconColor of itemWithInheritedColors
EffectiveIconColor(item, parentIconColor) ==
  Or(Or(Get(item, "iconColor"),
        IF item.type = "folder" THEN Get(item, "folderIconColor")
                                ELSE undefined),
     parentIconColor)

\* variant: folderLabelColor is used whatever the type of the item
EffectiveLabelColor_AnyType(item, parentLabelColor) ==
  Or(Or(Get(item, "labelColor"), Get(item, "folderLabelColor")),
     parentLabelColor)

\* the labelColor of itemWithInheritedColors
EffectiveLabelColor(item, parentLabelColor) ==
  Or(Or(Get(item, "labelColor"),
        IF item.type = "folder" THEN Get(item, "folderLabelColor")
                                ELSE undefined),
     parentLabelColor)

ItemWithInheritedColors(item, parentLabelColor, parentIconColor) ==
  Spread(item, [ iconColor  |-> EffectiveIconColor(item, parentIconColor),
                 labelColor |-> EffectiveLabelColor(item, parentLabelColor) ])

\* getChildItems throws a TypeError when DEFAULT_ITEM_CONFIG has no entry for
\* the type of some item (reading `.command` of undefined)
GetChildItemsThrows(items) ==
  \E i \in 1..Len(items) :
    LET type == Get(items[i], "type")
    IN  type # "title" /\ type \notin ItemTypes

\* variant: the nodes come out in the reverse of the items' order
getChildItems_Reversed(items, parentLabelColor, parentIconColor) ==
  [ i \in 1..Len(items) |->
      LET item == items[Len(items) + 1 - i]
      IN  LightningTreeItem(
            item.label,
            CommandOf(item),
            Some(ItemWithInheritedColors(item, parentLabelColor,
                                         parentIconColor))) ]

\* the array returned by getChildItems
getChildItems(items, parentLabelColor, parentIconColor) ==
  [ i \in 1..Len(items) |->
      LightningTreeItem(
        items[i].label,
        CommandOf(items[i]),
        Some(ItemWithInheritedColors(items[i], parentLabelColor,
                                     parentIconColor))) ]

\* variant: the resolved colours are assigned to the items themselves
ItemsAfterGetChildItems_InPlace(items, parentLabelColor, parentIconColor) ==
  [ i \in 1..Len(items) |->
      ItemWithInheritedColors(items[i], parentLabelColor, parentIconColor) ]

\* the array passed to getChildItems, as it is once the call has returned:
\* each element is read and copied with a spread, none is assigned to
ItemsAfterGetChildItems(items, parentLabelColor, parentIconColor) == items

\* the node getChildren builds while no configuration is loaded
OpenConfigurationNode ==
  LightningTreeItem("Open configuration",
                    Some([ command   |-> "lightning.openConfiguration",
                           title     |-> "Open configuration",
                           arguments |-> <<>> ]),
                    None)

NoColors == [labelColor |-> undefined, iconColor |-> undefined]

-----------------------------------------------------------------------------
(* LightningDecorationProvider.  colorMap maps uri.toString() to a colour;  *)
(* the model keeps the entries of file URIs and uses the URI as the key.    *)
(* The entries of the lightning://item/ URIs are left out: with the time in *)
(* its URI each of them is read for the one node it was made for.           *)

\* clearColors(): colorMap.clear()
clearColors == [uri \in {} |-> undefined]

\* the nodes whose constructor calls setItemColor(this.resourceUri, ...)
SetsItemColor(nodes) ==
  { i \in 1..Len(nodes) :
      /\ nodes[i].lightningItem # None
      /\ Truthy(Get(nodes[i].lightningItem[1], "labelColor"))
      /\ nodes[i].resourceUri # None }

\* colorMap after the constructors of nodes have run in order, each calling
\* setItemColor(uri, color): colorMap.set(uri.toString(), color)
setItemColors(map, nodes) ==
  LET set  == SetsItemColor(nodes)
      uris == { nodes[i].resourceUri[1] : i \in set }
  IN  [ uri \in (DOMAIN map) \cup uris |->
          IF uri \in uris
            THEN LET last == CHOOSE i \in set :
                               /\ nodes[i].resourceUri[1] = uri
                               /\ \A j \in set :
                                    nodes[j].resourceUri[1] = uri => j <= i
                 IN  nodes[last].lightningItem[1].labelColor
            ELSE map[uri] ]

\* provideFileDecoration(uri): the colour of the decoration, or undefined
provideFileDecoration(uri) ==
  IF uri \in DOMAIN colorMap /\ Truthy(colorMap[uri])
    THEN colorMap[uri]
    ELSE undefined

\* variant: the two colour arguments are passed in the other order
FolderInheritance_Swapped(folderItem) ==
  [ labelColor |-> Get(folderItem, "folderIconColor"),
    iconColor  |-> Get(folderItem, "folderLabelColor") ]

\* variant: the folder's own (resolved) colours are passed on
FolderInheritance_Effective(folderItem) ==
  [ labelColor |-> Get(folderItem, "labelColor"),
    iconColor  |-> Get(folderItem, "iconColor") ]

\* the colours getChildren passes on when a folder node is expanded
FolderInheritance(folderItem) ==
  [ labelColor |-> Get(folderItem, "folderLabelColor"),
    iconColor  |-> Get(folderItem, "folderIconColor") ]

hasConfiguration == configuration # None

-----------------------------------------------------------------------------
(* Positions in the configuration tree *)

RECURSIVE ItemsAt(_, _)
\* the child array of the item at position p (the root array for p = <<>>)
ItemsAt(items, p) ==
  IF p = <<>> THEN items
  ELSE ItemsAt(Get(items[Head(p)], "items"), Tail(p))

\* the configuration item at the non-empty position p
ItemAt(items, p) ==
  ItemsAt(items, SubSeq(p, 1, Len(p) - 1))[p[Len(p)]]

RECURSIVE WithItemsAt(_, _, _)
\* the root array in which the child array at position p is newItems
WithItemsAt(items, p, newItems) ==
  IF p = <<>> THEN newItems
  ELSE [items EXCEPT ![Head(p)] =
          Spread(@, [items |-> WithItemsAt(@.items, Tail(p), newItems)])]

-----------------------------------------------------------------------------
(* Configuration documents (lightning-types.ts) *)

ArrayKeys == {"items", "correctAnswers", "wrongAnswers"}

\* the JSON object with the fields of r that are not undefined
Object(r) ==
  [ k \in {k \in DOMAIN r : k \in ArrayKeys \/ r[k] # undefined} |-> r[k] ]

OptColor(c, withEmpty) ==
  IF withEmpty THEN {undefined, "", c} ELSE {undefined, c}

\* the colour fields of one item: its icon colours, or its label colours,
\* each absent, (the empty string) or a colour; `own` is the colour of
\* iconColor / labelColor, `forFolder` that of the folder* fields
ColorFields(own, forFolder, withEmpty) ==
  { p \in [ iconColor        : OptColor(own, withEmpty),
            folderIconColor  : OptColor(forFolder, withEmpty),
            labelColor       : OptColor(own, withEmpty),
            folderLabelColor : OptColor(forFolder, withEmpty) ] :
      \/ p.labelColor = undefined /\ p.folderLabelColor = undefined
      \/ p.iconColor = undefined /\ p.folderIconColor = undefined }

FileItem(label, fields) ==
  Object([type |-> "file", label |-> label, path |-> "a.txt"] @@ fields)

FolderItem(label, items, fields) ==
  Object([type |-> "folder", label |-> label, items |-> items] @@ fields)

\* a leaf of each of the 7 types with its required fields
LeafItem(type, label, fields) ==
  Object(
    [type |-> type, label |-> label] @@ fields @@
    CASE type = "file"    -> [path |-> "a.txt"]
      [] type = "dialog"  -> [message |-> "hello"]
      [] type = "folder"  -> [items |-> <<>>]
      [] type = "diff"    -> [diffPath |-> "change.diff"]
      [] type = "quiz"    -> [question |-> "q?", correctAnswers |-> <<"yes">>,
                              wrongAnswers |-> <<"no">>]
      [] type = "browser" -> [url |-> "http://localhost"]
      [] OTHER            -> [label |-> label])

Document(items) == [title |-> "Demo", items |-> items]

\* F > X and F > G > X chains with colours at every level
ThirdLevel ==
  { FileItem("X", p) : p \in ColorFields("blue", "cyan", FALSE) } \cup
  { FolderItem("X", <<>>, p) : p \in ColorFields("blue", "cyan", FALSE) }

SecondLevel ==
  { FileItem("X", p) : p \in ColorFields("green", "lime", TRUE) } \cup
  { FolderItem("G", <<x>>, p) :
      x \in ThirdLevel, p \in ColorFields("green", "lime", TRUE) }

ColorDocuments ==
  { Document(<<FolderItem("F", <<s>>, p)>>) :
      s \in SecondLevel, p \in ColorFields("red", "orange", FALSE) }

\* icon and soundPath of a leaf: a title varies its soundPath, every type
\* its icon
LeafFields(type) ==
  { [icon |-> i, soundPath |-> undefined] : i \in {undefined, "", "star"} }
  \cup
  IF type = "title"
    THEN { [icon |-> undefined, soundPath |-> s] : s \in {"", "ding.wav"} }
    ELSE {}

Labels == <<"A", "B", "C", "D">>

\* a leaf sequence whose items carry neither icon nor soundPath
IsPlain(s) ==
  \A i \in 1..Len(s) : DOMAIN s[i] \cap {"icon", "soundPath"} = {}

RECURSIVE LeafSeqs(_)
\* the sequences of at most n leaves, the i-th labelled Labels[i]; icon and
\* soundPath vary in the sequences of one and two leaves
LeafSeqs(n) ==
  IF n = 0 THEN {<<>>}
  ELSE LET shorter == LeafSeqs(n - 1)
       IN  shorter \cup
           UNION { { Append(s, LeafItem(t, Labels[n], f)) :
                       s \in {s \in shorter :
                                Len(s) = n - 1 /\ (n > 2 => IsPlain(s))},
                       f \in IF n <= 2 THEN LeafFields(t) ELSE {<<>>} } :
                   t \in ItemTypes }

\* a folder "Top" holding up to MaxChildren leaves of all types
StructureDocuments ==
  { Document(<<FolderItem("Top", s, <<>>)>>) : s \in LeafSeqs(MaxChildren) }

\* an item whose type is not one of the 7 (the retired "sound" type)
SoundItem == [type |-> "sound", label |-> "S", soundPath |-> "ding.wav"]

UnknownTypeDocuments ==
  { Document(<<SoundItem>>),
    Document(<<FolderItem("Top", <<SoundItem>>, <<>>)>>) }

Documents == ColorDocuments \cup StructureDocuments \cup UnknownTypeDocuments

Texts == {"a", "b"}

\* the sequences over Texts of at most n answers
AnswerSeqs(n) == UNION { [1..m -> Texts] : m \in 0..n }

\* displayMode and revealSoundPath of a quiz, and with the default display
\* mode its soundPath
QuizOptions ==
  { [displayMode |-> d, revealSoundPath |-> r, soundPath |-> undefined] :
      d \in {undefined, "webview", "menu", "dialog"},
      r \in {undefined, "tada.wav"} }
  \cup
  { [displayMode |-> undefined, revealSoundPath |-> r,
     soundPath |-> "ding.wav"] : r \in {undefined, "tada.wav"} }

\* the correctAnswers and wrongAnswers of a quiz: at most MaxAnswers in all
AnswerPairs ==
  { p \in AnswerSeqs(MaxAnswers) \X AnswerSeqs(MaxAnswers) :
      Len(p[1]) + Len(p[2]) <= MaxAnswers }

QuizItems ==
  { Object([ type |-> "quiz", label |-> "Q", question |-> "q?",
             correctAnswers |-> p[1], wrongAnswers |-> p[2] ] @@ o) :
      p \in AnswerPairs, o \in QuizOptions }

QuizDocuments == { Document(<<q>>) : q \in QuizItems }

\* an object without fields
NoFields == [k \in {} |-> undefined]

\* items whose activation, expansion, closing or reverting plays a sound or
\* works on a diff
ActivationItems ==
  { [type |-> "title", label |-> "T", soundPath |-> "ding.wav"],
    [type |-> "title", label |-> "T"],
    FolderItem("D", <<FileItem("X", [closeSoundPath |-> "shut.wav"])>>,
               [soundPath |-> "ding.wav"]) }
  \cup
  { Object([ type |-> "diff", label |-> "P", diffPath |-> "change.diff",
             revertSoundPath |-> "undo.wav", action |-> a, soundPath |-> s ]) :
      a \in {undefined, "apply", "preview"}, s \in {undefined, "ding.wav"} }
  \cup
  { [type |-> "file", label |-> "X", path |-> "a.txt",
     highlightStartLine |-> 3] @@ t @@ d :
      t \in {NoFields, [highlightType |-> "selection"]},
      d \in {NoFields, [highlightDuration |-> 0],
                       [highlightDuration |-> 1500]} }
  \cup
  { [type |-> "file", label |-> "X", path |-> "a.txt",
     soundPath |-> "ding.wav"],
    [type |-> "file", label |-> "X", path |-> "a.txt", line |-> 7,
     highlightStartLine |-> 0, highlightEndLine |-> 5,
     highlightType |-> "decoration", highlightColor |-> "red",
     highlightDuration |-> 1500],
    [type |-> "file", label |-> "X", path |-> "pic.png",
     highlightStartLine |-> 3] }
  \cup
  { Object([ type |-> "dialog", label |-> "M", message |-> "hello",
             severity |-> v, soundPath |-> snd ]) :
      v \in {undefined, "warning", "error"}, snd \in {undefined, "ding.wav"} }
  \cup
  { Object([ type |-> "browser", label |-> "W", url |-> "https://example.org",
             browserType |-> b, title |-> "Docs", soundPath |-> snd ]) :
      b \in {undefined, "external"}, snd \in {undefined, "ding.wav"} }
  \cup
  { Object([ type |-> "quiz", label |-> "Q", question |-> "q?",
             correctAnswers |-> <<"a">>, wrongAnswers |-> <<"b">>,
             revealSoundPath |-> "tada.wav", displayMode |-> d ]) :
      d \in {"dialog", "menu", "webview"} }

ActivationDocuments == { Document(<<x>>) : x \in ActivationItems }

\* the documents of the folder with two documents: the JSON texts that denote
\* no object, a document with one title, and documents with two file items
\* of the same path, the first with a label colour
LoadDocuments ==
  FalsyPrimitives
  \cup { Document(<<[type |-> "title", label |-> "A"]>>) }
  \cup { Document(<<FileItem("X", [labelColor |-> "red"]),
                    FileItem("Y", [labelColor |-> c])>>) :
           c \in {undefined, "blue"} }

-----------------------------------------------------------------------------
(* The file system and JSON.parse.  The text of a well-formed document is   *)
(* represented by the value it denotes.                                     *)

\* the names a file can have
FileNames == {"a.json", "b.json", "bad.json", "missing.json"}

\* the user's folder holds the document doc and nothing else
DiskWith(doc) == [ f \in {"a.json"} |-> [kind |-> "json", value |-> doc] ]

\* the user's folder holds two documents, a file whose text is not JSON and
\* a file that is gone by the time it is read
DiskOf(docA, docB) ==
  [ f \in FileNames |->
      CASE f = "a.json"   -> [kind |-> "json", value |-> docA]
        [] f = "b.json"   -> [kind |-> "json", value |-> docB]
        [] f = "bad.json" -> [kind |-> "garbage"]
        [] OTHER          -> [kind |-> "absent"] ]

\* fs.promises.readFile(filePath, "utf8")
readFile(filePath) ==
  IF disk[filePath].kind = "absent"
    THEN [ok |-> FALSE, error |-> "ENOENT"]
    ELSE [ok |-> TRUE, fileContent |-> disk[filePath]]

\* variant: text that is not JSON parses to an empty configuration
JSONparse_Lenient(fileContent) ==
  IF fileContent.kind = "json"
    THEN [ok |-> TRUE, config |-> fileContent.value]
    ELSE [ok |-> TRUE, config |-> [title |-> "", items |-> <<>>]]

\* JSON.parse(fileContent)
JSONparse(fileContent) ==
  IF fileContent.kind = "json"
    THEN [ok |-> TRUE, config |-> fileContent.value]
    ELSE [ok |-> FALSE, error |-> "SyntaxError"]

-----------------------------------------------------------------------------
(* State *)

NoQuiz == [phase |-> "none"]

\* the state after activation, before any command
InitOn(disks) ==
  /\ disk \in disks
  /\ configuration = None
  /\ context = [configLoaded |-> FALSE, soundsMuted |-> FALSE]
  /\ loads = {}
  /\ element = None
  /\ path = <<>>
  /\ shown = <<>>
  /\ threw = FALSE
  /\ inherited = NoColors
  /\ effects = <<>>
  /\ isSoundMuted = FALSE
  /\ quiz = NoQuiz
  /\ diff = None
  /\ lastStarted = None
  /\ colorMap = clearColors
  /\ highlights = <<>>

InitWith(docs) == InitOn({ DiskWith(doc) : doc \in docs })

Init == InitWith(Documents)

\* executeCommand("setContext", key, value)
SetContext(key, value) == [kind |-> "setContext", key |-> key, value |-> value]

\* refresh(): clearColors(), then _onDidChangeTreeData.fire() makes the host
\* drop every node it holds and ask for the root again
Refresh ==
  /\ colorMap' = clearColors
  /\ element' = None
  /\ path' = <<>>
  /\ shown' = <<>>
  /\ threw' = FALSE
  /\ inherited' = NoColors

\* lightning.resetConfig -> resetToInitialState()
ResetConfig ==
  /\ configuration' = None
  /\ context' = [context EXCEPT !.configLoaded = FALSE]
  /\ Refresh
  /\ effects' = <<SetContext("lightning.configLoaded", FALSE)>>
  /\ UNCHANGED <<lastStarted, highlights, disk, loads, isSoundMuted, quiz,
                 diff>>

\* lightning.openConfiguration: the user picks filePath in the open dialog
\* and setConfigurationFile(filePath) runs up to `await readFile`
OpenConfiguration(filePath) ==
  /\ filePath \in DOMAIN disk
  /\ Cardinality(loads) < MaxLoads
  /\ filePath \notin loads
  /\ loads' = loads \cup {filePath}
  /\ lastStarted' = Some(filePath)
  /\ effects' = <<>>
  /\ UNCHANGED <<colorMap, highlights, disk, configuration, context, element,
                 path, shown, threw, inherited, isSoundMuted, quiz, diff>>

LoadedMessage(filePath) ==
  [kind |-> "information", text |-> "Loaded configuration", file |-> filePath]

FailedMessage(error) ==
  [kind |-> "error", text |-> "Failed to load configuration file",
   error |-> error]

\* variant: the document is merged into the configuration already loaded
Assigned_Merged(config) ==
  IF configuration # None /\ "items" \in DOMAIN configuration[1]
                          /\ "items" \in DOMAIN config
    THEN [config EXCEPT !.items = configuration[1].items \o @]
    ELSE config

\* this.configuration = config
Assigned(config) == config

\* lightning.openConfiguration after `await setConfigurationFile(filePath)`:
\* the information message is shown whether or not the file was loaded
AfterSetConfigurationFile(filePath) == <<LoadedMessage(filePath)>>

\* setConfigurationFile(filePath) from the completion of readFile on, and
\* then the rest of the lightning.openConfiguration handler
SetConfigurationFile(filePath) ==
  /\ filePath \in loads
  /\ loads' = loads \ {filePath}
  /\ lastStarted' = IF loads' = {} THEN None ELSE lastStarted
  /\ LET read   == readFile(filePath)
         parsed == IF read.ok THEN JSONparse(read.fileContent) ELSE read
     IN  IF parsed.ok
           THEN /\ configuration' = Some(Assigned(parsed.config))
                /\ context' = [context EXCEPT !.configLoaded = TRUE]
                /\ Refresh
                /\ effects' = <<SetContext("lightning.configLoaded", TRUE)>>
                               \o AfterSetConfigurationFile(filePath)
           ELSE /\ effects' = <<FailedMessage(parsed.error)>>
                               \o AfterSetConfigurationFile(filePath)
                /\ UNCHANGED <<configuration, context, element, path, shown,
                               threw, inherited, colorMap>>
  /\ UNCHANGED <<highlights, disk, isSoundMuted, quiz, diff>>

\* if (!this.configuration): nothing was assigned, or a value that is falsy
NoConfiguration == configuration = None \/ Falsy(configuration[1])

\* getChildren(undefined)
GetChildrenRoot ==
  /\ element' = None
  /\ path' = <<>>
  /\ inherited' = NoColors
  /\ effects' = <<>>
  /\ IF NoConfiguration
       THEN /\ shown' = <<OpenConfigurationNode>>
            /\ threw' = FALSE
            /\ UNCHANGED <<configuration, colorMap>>
       ELSE LET items == configuration[1].items
            IN  IF GetChildItemsThrows(items)
                  THEN /\ shown' = <<>>
                       /\ threw' = TRUE
                       /\ UNCHANGED <<configuration, colorMap>>
                  ELSE /\ shown' = getChildItems(items, undefined, undefined)
                       /\ colorMap' = setItemColors(colorMap, shown')
                       /\ threw' = FALSE
                       /\ configuration' =
                            Some(Spread(configuration[1],
                              [items |-> ItemsAfterGetChildItems(
                                           items, undefined, undefined)]))
  /\ UNCHANGED <<lastStarted, highlights, disk, context, loads, isSoundMuted,
                 quiz, diff>>

\* getChildren(shown[k])
GetChildren(k) ==
  /\ k \in 1..Len(shown)
  /\ element' = Some(shown[k])
  /\ path' = Append(path, k)
  /\ effects' = <<>>
  /\ IF shown[k].lightningItem # None
        /\ shown[k].lightningItem[1].type = "folder"
       THEN LET folderItem == shown[k].lightningItem[1]
                colors     == FolderInheritance(folderItem)
            IN  /\ inherited' = colors
                /\ IF GetChildItemsThrows(folderItem.items)
                     THEN /\ shown' = <<>>
                          /\ threw' = TRUE
                          /\ UNCHANGED <<configuration, colorMap>>
                     ELSE /\ shown' = getChildItems(folderItem.items,
                                         colors.labelColor, colors.iconColor)
                          /\ colorMap' = setItemColors(colorMap, shown')
                          /\ threw' = FALSE
                          /\ configuration' =
                               Some(Spread(configuration[1],
                                 [items |-> WithItemsAt(
                                    configuration[1].items, path',
                                    ItemsAfterGetChildItems(folderItem.items,
                                      colors.labelColor, colors.iconColor))]))
       ELSE /\ shown' = <<>>
            /\ threw' = FALSE
            /\ inherited' = NoColors
            /\ UNCHANGED <<configuration, colorMap>>
  /\ UNCHANGED <<lastStarted, highlights, disk, context, loads, isSoundMuted,
                 quiz, diff>>

-----------------------------------------------------------------------------
(* sound-manager.ts *)

\* lightning.toggleMute / lightning.toggleUnmute -> setSoundMuted(muted)
SetSoundMuted(muted) ==
  /\ isSoundMuted' = muted
  /\ context' = [context EXCEPT !.soundsMuted = muted]
  /\ effects' = <<SetContext("lightning.soundsMuted", muted),
                  [kind |-> "information",
                   text |-> IF muted THEN "Lightning sounds muted"
                                     ELSE "Lightning sounds unmuted"]>>
  /\ UNCHANGED <<lastStarted, colorMap, highlights, disk, configuration,
                 loads, element, path, shown, threw, inherited, quiz, diff>>

getSoundMuted == isSoundMuted

\* variant: the mute flag is consulted after the workspace lookup
playSound_LateMuteCheck(soundPath, workspaceFolders, exists) ==
  <<[kind |-> "playSound", soundPath |-> soundPath],
    [kind |-> "workspaceFolders"]>> \o
  IF ~workspaceFolders
    THEN <<[kind |-> "error", text |-> "No workspace folder found"]>>
  ELSE IF getSoundMuted THEN <<>>
  ELSE <<[kind |-> "existsSync", soundPath |-> soundPath]>> \o
       IF ~exists
         THEN <<[kind |-> "error", text |-> "Sound file not found",
                 soundPath |-> soundPath]>>
         ELSE <<[kind |-> "exec", soundPath |-> soundPath]>>

\* the trace of one playSound(soundPath) call: the call itself, then what it
\* reads and requests, given whether the workspace has a folder and whether
\* the resolved sound file exists.  The player process and its completion
\* callback belong to the host.
playSound(soundPath, workspaceFolders, exists) ==
  <<[kind |-> "playSound", soundPath |-> soundPath]>> \o
  IF getSoundMuted THEN <<>>
  ELSE <<[kind |-> "workspaceFolders"]>> \o
       IF ~workspaceFolders
         THEN <<[kind |-> "error", text |-> "No workspace folder found"]>>
         ELSE <<[kind |-> "existsSync", soundPath |-> soundPath]>> \o
              IF ~exists
                THEN <<[kind |-> "error", text |-> "Sound file not found",
                        soundPath |-> soundPath]>>
                ELSE <<[kind |-> "exec", soundPath |-> soundPath]>>

\* the traces a playSound(soundPath) call can leave, over the states of the
\* workspace and of the file system
PlaySoundTraces(soundPath) ==
  { playSound(soundPath, workspaceFolders, exists) :
      workspaceFolders \in BOOLEAN, exists \in BOOLEAN }

\* if (item[field]) playSound(item[field])
PlaySoundIfSet(item, field) ==
  IF Truthy(Get(item, field))
    THEN PlaySoundTraces(item[field])
    ELSE { <<>> }

\* playSoundIfPresent(item)
playSoundIfPresent(item) == PlaySoundIfSet(item, "soundPath")

-----------------------------------------------------------------------------
(* quiz-manager.ts *)

\* [...correctAnswers.map(correct: true), ...wrongAnswers.map(correct: false)]
CombineAnswers(quizItem) ==
  [ i \in 1..Len(quizItem.correctAnswers) |->
      [text |-> quizItem.correctAnswers[i], correct |-> TRUE] ]
  \o
  [ i \in 1..Len(quizItem.wrongAnswers) |->
      [text |-> quizItem.wrongAnswers[i], correct |-> FALSE] ]

\* variant: a[i] = a[j] without the assignment to a[j]
Swap_Overwrite(a, i, j) == [a EXCEPT ![i] = a[j]]

\* [a[i], a[j]] = [a[j], a[i]]
Swap(a, i, j) == [a EXCEPT ![i] = a[j], ![j] = a[i]]

\* the values j = floor(Math.random() * (i + 1)) can take in the loop, for
\* an array of n elements (indices counted from 1)
RandomChoices(n) == { r \in [2..n -> 1..n] : \A i \in 2..n : r[i] <= i }

RECURSIVE ShuffleFrom(_, _, _)
\* for (let i = ...; i > 0; i--) { j = random[i]; swap(i, j) }
ShuffleFrom(allAnswers, i, random) ==
  IF i <= 1 THEN allAnswers
  ELSE ShuffleFrom(Swap(allAnswers, i, random[i]), i - 1, random)

Shuffle(allAnswers, random) ==
  ShuffleFrom(allAnswers, Len(allAnswers), random)

\* variant: the unrevealed lines already carry the icon of their answer
UnrevealedLines_Marked(mode, allAnswers) ==
  [ i \in 1..Len(allAnswers) |->
      [ index |-> IF mode = "webview" THEN 0 ELSE i,
        text  |-> allAnswers[i].text,
        icon  |-> IF allAnswers[i].correct THEN "$(check)" ELSE "$(x)" ] ]

\* what is put on display before the reveal: one line per answer, numbered
\* in dialog and menu mode, without any correctness icon
UnrevealedLines(mode, allAnswers) ==
  [ i \in 1..Len(allAnswers) |->
      [ index |-> IF mode = "webview" THEN 0 ELSE i,
        text  |-> allAnswers[i].text,
        icon  |-> "" ] ]

\* the icon put before a revealed answer: the emoji of the dialog text, the
\* codicon of the menu label, the character the webview script writes
CorrectnessIcon(mode, correct) ==
  CASE mode = "dialog" -> IF correct THEN "U+2705" ELSE "U+274C"
    [] mode = "menu"   -> IF correct THEN "$(check)" ELSE "$(x)"
    [] OTHER           -> IF correct THEN "U+2713" ELSE "U+2717"

\* variant: the revealed lines list the answers in reverse
RevealedLines_Reversed(mode, allAnswers) ==
  [ i \in 1..Len(allAnswers) |->
      [ index |-> i,
        text  |-> allAnswers[Len(allAnswers) + 1 - i].text,
        icon  |-> CorrectnessIcon(mode,
                    allAnswers[Len(allAnswers) + 1 - i].correct) ] ]

\* revealedContent of the dialog / the items of the reveal quick pick
RevealedLines(mode, allAnswers) ==
  [ i \in 1..Len(allAnswers) |->
      [ index |-> i,
        text  |-> allAnswers[i].text,
        icon  |-> CorrectnessIcon(mode, allAnswers[i].correct) ] ]

\* the webview script on "showAnswers": the icon of line i is set from
\* message.answers[i]; the texts stay as the page was generated
WebviewShowAnswers(lines, answers) ==
  [ i \in 1..Len(lines) |->
      IF i <= Len(answers)
        THEN [lines[i] EXCEPT
                !.icon = CorrectnessIcon("webview", answers[i].correct)]
        ELSE lines[i] ]

\* variant: the reveal sound is played whether or not revealSoundPath is set
RevealSound_Always(quizItem) ==
  PlaySoundTraces(Get(quizItem, "revealSoundPath"))

\* if (quizItem.revealSoundPath) playSound(quizItem.revealSoundPath)
RevealSound(quizItem) == PlaySoundIfSet(quizItem, "revealSoundPath")

\* Quizzes on display are independent of each other: each call of a
\* showQuiz* function has its own allAnswers and its own dialog, quick pick
\* or panel.  The model follows one of them at a time.
QuizOnDisplay == quiz.phase \in {"Unrevealed", "Revealed"}

\* lightning.showQuiz on the item attached to shown[k]: playSoundIfPresent,
\* then showQuizMenu / showQuizDialog / showQuizWebview up to the point where
\* the quiz is on display
ShowQuiz(k) ==
  /\ ~QuizOnDisplay
  /\ k \in 1..Len(shown)
  /\ shown[k].command # None
  /\ shown[k].command[1].command = "lightning.showQuiz"
  /\ LET quizItem == shown[k].command[1].arguments[1]
     IN  /\ quizItem.type = "quiz"
         /\ effects' \in playSoundIfPresent(quizItem)
         /\ LET displayMode == Or(Get(quizItem, "displayMode"), "webview")
                mode == IF displayMode \in {"menu", "dialog"}
                          THEN displayMode ELSE "webview"
                combined == CombineAnswers(quizItem)
            IN  \E random \in RandomChoices(Len(combined)) :
                  LET allAnswers == Shuffle(combined, random)
                  IN  quiz' = [ phase       |-> "Unrevealed",
                                mode        |-> mode,
                                quizItem    |-> quizItem,
                                allAnswers  |-> allAnswers,
                                rendered    |->
                                  UnrevealedLines(mode, allAnswers),
                                revealed    |-> None,
                                reveals     |-> 0,
                                button      |-> TRUE,
                                clicks      |-> 0,
                                toExtension |-> 0,
                                toWebview   |-> <<>> ]
  /\ UNCHANGED <<lastStarted, colorMap, highlights, disk, configuration,
                 context, loads, element, path, shown, threw, inherited,
                 isSoundMuted, diff>>

\* showQuizDialog after the first dialog closed with "Reveal Answers"
RevealDialog ==
  /\ quiz.phase = "Unrevealed"
  /\ quiz.mode = "dialog"
  /\ effects' \in RevealSound(quiz.quizItem)
  /\ quiz' = [quiz EXCEPT
       !.phase = "Revealed",
       !.reveals = @ + 1,
       !.button = FALSE,
       !.revealed = Some(RevealedLines("dialog", quiz.allAnswers))]
  /\ UNCHANGED <<lastStarted, colorMap, highlights, disk, configuration,
                 context, loads, element, path, shown, threw, inherited,
                 isSoundMuted, diff>>

\* the labels of the first quick pick: the answers, then the reveal item
MenuLabels ==
  [ i \in 1..Len(quiz.rendered) |-> quiz.rendered[i].text ] \o
  <<"$(eye) Reveal Answers">>

\* quickPick.onDidAccept with the selected-th item selected: the quick pick
\* is hidden and showRevealedAnswers runs when the label is the reveal item's
AcceptMenu(selected) ==
  /\ quiz.phase = "Unrevealed"
  /\ quiz.mode = "menu"
  /\ selected \in 1..Len(MenuLabels)
  /\ IF MenuLabels[selected] = "$(eye) Reveal Answers"
       THEN /\ effects' \in RevealSound(quiz.quizItem)
            /\ quiz' = [quiz EXCEPT
                 !.phase = "Revealed",
                 !.reveals = @ + 1,
                 !.button = FALSE,
                 !.revealed = Some(RevealedLines("menu", quiz.allAnswers))]
       ELSE /\ effects' = <<>>
            /\ UNCHANGED quiz
  /\ UNCHANGED <<lastStarted, colorMap, highlights, disk, configuration,
                 context, loads, element, path, shown, threw, inherited,
                 isSoundMuted, diff>>

\* the Reveal button of the page: revealAnswers() posts {command: "reveal"}
ClickReveal ==
  /\ QuizOnDisplay
  /\ quiz.mode = "webview"
  /\ quiz.button
  /\ quiz.clicks < MaxClicks
  /\ quiz' = [quiz EXCEPT !.clicks = @ + 1, !.toExtension = @ + 1]
  /\ effects' = <<>>
  /\ UNCHANGED <<lastStarted, colorMap, highlights, disk, configuration,
                 context, loads, element, path, shown, threw, inherited,
                 isSoundMuted, diff>>

\* panel.webview.onDidReceiveMessage, case "reveal"
ReceiveReveal ==
  /\ QuizOnDisplay
  /\ quiz.mode = "webview"
  /\ quiz.toExtension > 0
  /\ \E sound \in RevealSound(quiz.quizItem) :
       effects' = <<[kind |-> "postMessage", command |-> "showAnswers",
                     answers |-> quiz.allAnswers]>> \o sound
  /\ quiz' = [quiz EXCEPT
       !.phase = "Revealed",
       !.reveals = @ + 1,
       !.toExtension = @ - 1,
       !.toWebview = Append(@, [command |-> "showAnswers",
                                answers |-> quiz.allAnswers])]
  /\ UNCHANGED <<lastStarted, colorMap, highlights, disk, configuration,
                 context, loads, element, path, shown, threw, inherited,
                 isSoundMuted, diff>>

\* the page's "message" listener on the oldest showAnswers message
ShowAnswers ==
  /\ QuizOnDisplay
  /\ quiz.mode = "webview"
  /\ quiz.toWebview # <<>>
  /\ quiz' = [quiz EXCEPT
       !.toWebview = Tail(@),
       !.button = FALSE,
       !.revealed = Some(WebviewShowAnswers(
                           IF quiz.revealed = None THEN quiz.rendered
                                                   ELSE quiz.revealed[1],
                           Head(quiz.toWebview).answers))]
  /\ effects' = <<>>
  /\ UNCHANGED <<lastStarted, colorMap, highlights, disk, configuration,
                 context, loads, element, path, shown, threw, inherited,
                 isSoundMuted, diff>>

\* the user closes what is on display: the dialog without picking
\* "Reveal Answers" or the second dialog, the quick pick with Escape, the
\* panel; nothing of the invocation is left
DismissQuiz ==
  /\ QuizOnDisplay
  /\ quiz' = NoQuiz
  /\ effects' = <<>>
  /\ UNCHANGED <<lastStarted, colorMap, highlights, disk, configuration,
                 context, loads, element, path, shown, threw, inherited,
                 isSoundMuted, diff>>

-----------------------------------------------------------------------------
(* extension.ts: activation and the tree view events *)

\* variant: sound-manager's module state survives into the activation
ModuleInitialisers_Kept == isSoundMuted

\* the value of isSoundMuted when sound-manager is loaded by a new extension
\* host process: `let isSoundMuted = false`
ModuleInitialisers == FALSE

\* A new extension host process loads the modules and calls activate():
\* both context keys are set to false, a new provider without configuration
\* is created; what the previous process had in progress is gone.
Activate ==
  /\ isSoundMuted' = ModuleInitialisers
  /\ context' = [configLoaded |-> FALSE, soundsMuted |-> FALSE]
  /\ configuration' = None
  /\ loads' = {}
  /\ lastStarted' = None
  /\ Refresh
  /\ quiz' = NoQuiz
  /\ diff' = None
  /\ highlights' = <<>>
  /\ effects' = <<[kind |-> "log",
                   text |-> "Lightning extension is now active!"],
                  SetContext("lightning.soundsMuted", FALSE),
                  SetContext("lightning.configLoaded", FALSE)>>
  /\ UNCHANGED disk

\* treeView.onDidExpandElement / onDidCollapseElement on shown[k]
ExpandOrCollapseElement(k) ==
  /\ k \in 1..Len(shown)
  /\ IF shown[k].lightningItem # None
        /\ shown[k].lightningItem[1].type = "folder"
       THEN effects' \in playSoundIfPresent(shown[k].lightningItem[1])
       ELSE effects' = <<>>
  /\ UNCHANGED <<lastStarted, colorMap, highlights, disk, configuration,
                 context, loads, element, path, shown, threw, inherited,
                 isSoundMuted, quiz, diff>>

\* lightning.playSound on the item attached to shown[k]
PlaySoundCommand(k) ==
  /\ k \in 1..Len(shown)
  /\ shown[k].command # None
  /\ shown[k].command[1].command = "lightning.playSound"
  /\ effects' \in playSoundIfPresent(shown[k].command[1].arguments[1])
  /\ UNCHANGED <<lastStarted, colorMap, highlights, disk, configuration,
                 context, loads, element, path, shown, threw, inherited,
                 isSoundMuted, quiz, diff>>

-----------------------------------------------------------------------------
(* file-manager.ts.  Item paths are relative, so every function needs a   *)
(* workspace folder to resolve them.                                       *)

NoWorkspaceToResolve ==
  [kind |-> "error",
   text |-> "No workspace folder found to resolve relative path"]

\* lightning.closeFile on shown[k] (context menu of a file node), given
\* whether the workspace has a folder and whether a tab shows the file
CloseFile(k, workspaceFolder, tabOpen) ==
  /\ k \in 1..Len(shown)
  /\ shown[k].lightningItem # None
  /\ shown[k].lightningItem[1].type = "file"
  /\ LET item == shown[k].lightningItem[1]
     IN  IF ~workspaceFolder
           THEN effects' = <<NoWorkspaceToResolve>>
         ELSE IF tabOpen
           THEN \E sound \in PlaySoundIfSet(item, "closeSoundPath") :
                  effects' = <<[kind |-> "closeTab", path |-> item.path]>>
                             \o sound
           ELSE effects' = <<[kind |-> "information",
                              text |-> "is not currently open",
                              path |-> item.path]>>
  /\ UNCHANGED <<lastStarted, colorMap, highlights, disk, configuration,
                 context, loads, element, path, shown, threw, inherited,
                 isSoundMuted, quiz, diff>>

\* Calls of applyDiff and revertDiff are independent of each other; the
\* model follows one at a time, from the command to its last callback.
DiffInProgress ==
  diff # None /\ diff[1].state \in {"Prompt", "Applying", "Reverting"}

ApplyOrPreviewDialog(item) ==
  [kind |-> "warning", modal |-> TRUE, text |-> "Apply diff from",
   diffPath |-> item.diffPath, choices |-> <<"Apply Diff", "Preview Only">>]

\* variant: without an action the diff is applied
SelectedAction_DefaultApply(item) == Or(Get(item, "action"), "apply")

\* let selectedAction = action
SelectedAction(item) == Get(item, "action")

\* variant: the dialog is shown whatever the action
NeedsChoice_Always(selectedAction) == TRUE

\* if (!selectedAction)
NeedsChoice(selectedAction) == ~Truthy(selectedAction)

\* applyDiff from `if (selectedAction === "apply")` on: the state the call
\* is left in and what it requests, given whether showTextDocument succeeds
RunDiff(item, selectedAction, opens) ==
  IF selectedAction = "apply"
    THEN [state |-> "Applying",
          effects |-> <<[kind |-> "exec", command |-> "git apply",
                         diffPath |-> item.diffPath]>>]
  ELSE IF selectedAction = "preview"
    THEN IF opens
           THEN [state |-> "Previewed",
                 effects |-> <<[kind |-> "showTextDocument",
                                path |-> item.diffPath]>>]
           ELSE [state |-> "Failed",
                 effects |-> <<[kind |-> "showTextDocument",
                                path |-> item.diffPath],
                               [kind |-> "error",
                                text |-> "Failed to process diff"]>>]
  ELSE [state |-> "Ignored", effects |-> <<>>]

\* lightning.applyDiff on the item attached to shown[k], up to the dialog or
\* to the end, given the workspace, the diff file and showTextDocument
ApplyDiff(k, workspaceFolder, exists, opens) ==
  /\ ~DiffInProgress
  /\ k \in 1..Len(shown)
  /\ shown[k].command # None
  /\ shown[k].command[1].command = "lightning.applyDiff"
  /\ LET item  == shown[k].command[1].arguments[1]
         call  == [command |-> "lightning.applyDiff", item |-> item,
                   picked |-> undefined]
     IN  \E sound \in playSoundIfPresent(item) :
           IF ~workspaceFolder
             THEN /\ effects' = sound \o <<NoWorkspaceToResolve>>
                  /\ diff' = Some(call @@ [state |-> "Failed"])
           ELSE IF ~exists
             THEN /\ effects' = sound \o
                       <<[kind |-> "error", text |-> "Diff file not found",
                          diffPath |-> item.diffPath]>>
                  /\ diff' = Some(call @@ [state |-> "Failed"])
           ELSE IF NeedsChoice(SelectedAction(item))
             THEN /\ effects' = sound \o <<ApplyOrPreviewDialog(item)>>
                  /\ diff' = Some(call @@ [state |-> "Prompt"])
           ELSE LET run == RunDiff(item, SelectedAction(item), opens)
                IN  /\ effects' = sound \o run.effects
                    /\ diff' = Some(call @@ [state |-> run.state])
  /\ UNCHANGED <<lastStarted, colorMap, highlights, disk, configuration,
                 context, loads, element, path, shown, threw, inherited,
                 isSoundMuted, quiz>>

\* the user picks a button of the dialog and applyDiff goes on
ChooseDiff(dialogResult, opens) ==
  /\ diff # None
  /\ diff[1].state = "Prompt"
  /\ dialogResult \in {"Apply Diff", "Preview Only"}
  /\ LET selectedAction == IF dialogResult = "Apply Diff" THEN "apply"
                                                        ELSE "preview"
         run == RunDiff(diff[1].item, selectedAction, opens)
     IN  /\ effects' = run.effects
         /\ diff' = Some([diff[1] EXCEPT !.state = run.state,
                                         !.picked = dialogResult])
  /\ UNCHANGED <<lastStarted, colorMap, highlights, disk, configuration,
                 context, loads, element, path, shown, threw, inherited,
                 isSoundMuted, quiz>>

\* variant: a dismissed dialog is reported as a failure
CancelEffects_Error ==
  <<[kind |-> "error", text |-> "Failed to process diff"]>>

\* what applyDiff requests after the dialog was dismissed: `return`
CancelEffects == <<>>

\* the user dismisses the dialog: dialogResult is undefined
DismissDiff ==
  /\ diff # None
  /\ diff[1].state = "Prompt"
  /\ effects' = CancelEffects
  /\ diff' = Some([diff[1] EXCEPT !.state = "Cancelled"])
  /\ UNCHANGED <<lastStarted, colorMap, highlights, disk, configuration,
                 context, loads, element, path, shown, threw, inherited,
                 isSoundMuted, quiz>>

\* lightning.revertDiff on shown[k] (context menu of a diff node) up to the
\* start of git, given the workspace and the diff file
RevertDiff(k, workspaceFolder, exists) ==
  /\ ~DiffInProgress
  /\ k \in 1..Len(shown)
  /\ shown[k].lightningItem # None
  /\ shown[k].lightningItem[1].type = "diff"
  /\ LET item == shown[k].lightningItem[1]
         call == [command |-> "lightning.revertDiff", item |-> item,
                  picked |-> undefined]
     IN  IF ~workspaceFolder
           THEN /\ effects' = <<NoWorkspaceToResolve>>
                /\ diff' = Some(call @@ [state |-> "Failed"])
         ELSE IF ~exists
           THEN /\ effects' = <<[kind |-> "error",
                                 text |-> "Diff file not found",
                                 diffPath |-> item.diffPath]>>
                /\ diff' = Some(call @@ [state |-> "Failed"])
         ELSE /\ effects' = <<[kind |-> "exec",
                               command |-> "git apply --reverse",
                               diffPath |-> item.diffPath]>>
              /\ diff' = Some(call @@ [state |-> "Reverting"])
  /\ UNCHANGED <<lastStarted, colorMap, highlights, disk, configuration,
                 context, loads, element, path, shown, threw, inherited,
                 isSoundMuted, quiz>>

\* the callback of exec: git ended with or without an error
GitDone(error) ==
  /\ diff # None
  /\ diff[1].state \in {"Applying", "Reverting"}
  /\ IF diff[1].state = "Applying"
       THEN /\ effects' =
                 IF error
                   THEN <<[kind |-> "error", text |-> "Failed to apply diff"]>>
                   ELSE <<[kind |-> "information",
                           text |-> "Successfully applied diff"]>>
            /\ diff' = Some([diff[1] EXCEPT
                 !.state = IF error THEN "Failed" ELSE "Applied"])
       ELSE /\ IF error
                 THEN effects' = <<[kind |-> "error",
                                    text |-> "Failed to revert diff"]>>
                 ELSE \E sound \in
                          PlaySoundIfSet(diff[1].item, "revertSoundPath") :
                        effects' = sound \o
                          <<[kind |-> "information",
                             text |-> "Successfully reverted diff"]>>
            /\ diff' = Some([diff[1] EXCEPT
                 !.state = IF error THEN "Failed" ELSE "Reverted"])
  /\ UNCHANGED <<lastStarted, colorMap, highlights, disk, configuration,
                 context, loads, element, path, shown, threw, inherited,
                 isSoundMuted, quiz>>

-----------------------------------------------------------------------------
(* file-manager.ts: openFile.  dialog-manager.ts.  browser-manager.ts.      *)

\* variant: a command handler drops the provider's configuration
ProviderUntouched_Reset ==
  /\ configuration' = None
  /\ UNCHANGED <<context, loads, lastStarted, element, path, shown, threw,
                 inherited, colorMap>>

\* file-manager, dialog-manager and browser-manager import the sound manager
\* and the host API and get the item as their argument: nothing in them
\* refers to the provider
ProviderUntouched ==
  UNCHANGED <<configuration, context, loads, lastStarted, element, path,
              shown, threw, inherited, colorMap>>

\* path.extname(resolvedPath).toLowerCase(), for the paths of the model
Extension(p) ==
  CASE p = "pic.png" -> ".png"
    [] p = "a.txt"   -> ".txt"
    [] OTHER         -> ""

\* imageExtensions.includes(extension) || binaryExtensions.includes(extension)
ImageOrBinary(p) ==
  Extension(p) \in {".png", ".jpg", ".jpeg", ".gif", ".bmp", ".svg", ".webp",
                    ".ico", ".pdf", ".zip", ".tar", ".gz", ".exe", ".dll",
                    ".so", ".dylib"}

\* Math.max(0, n)
Max0(n) == IF n > 0 THEN n ELSE 0

\* a field of a parsed JSON object is !== undefined when the key is present
Defined(item, key) == key \in DOMAIN item

\* variant: a duration of 0 is replaced by the default as well
HighlightDuration_OrDefault(item) ==
  IF Defined(item, "highlightDuration") /\ item.highlightDuration # 0
    THEN item.highlightDuration
    ELSE 5000

\* item.highlightDuration !== undefined ? item.highlightDuration : 5000
HighlightDuration(item) ==
  IF Defined(item, "highlightDuration") THEN item.highlightDuration ELSE 5000

\* `if (item.line !== undefined && item.line > 0)`: selection and reveal
RevealLine(item) ==
  IF Defined(item, "line") /\ item.line > 0
    THEN <<[kind |-> "selection", startLine |-> item.line - 1,
            endLine |-> item.line - 1],
           [kind |-> "revealRange", startLine |-> item.line - 1]>>
    ELSE <<>>

\* `if (item.highlightStartLine !== undefined)`: what openFile requests for
\* the highlight, and the decoration type it leaves on the editor, if any
Highlight(item) ==
  IF ~Defined(item, "highlightStartLine")
    THEN [effects |-> <<>>, decoration |-> None]
  ELSE
    LET startLine == Max0(item.highlightStartLine - 1)
        endLine   == IF Defined(item, "highlightEndLine")
                        /\ item.highlightEndLine # 0
                       THEN Max0(item.highlightEndLine - 1)
                       ELSE startLine
    IN  IF Get(item, "highlightType") = "selection"
          THEN [effects |->
                  <<[kind |-> "selection", startLine |-> startLine,
                     endLine |-> endLine],
                    [kind |-> "revealRange", startLine |-> startLine]>>,
                decoration |-> None]
          ELSE
            LET backgroundColor == Or(Get(item, "highlightColor"),
                                      "rgba(255, 255, 0, 0.3)")
                duration == HighlightDuration(item)
            IN  [effects |->
                   <<[kind |-> "createTextEditorDecorationType",
                      backgroundColor |-> backgroundColor],
                     [kind |-> "setDecorations", startLine |-> startLine,
                      endLine |-> endLine]>> \o
                   IF duration > 0
                     THEN <<[kind |-> "setTimeout", delay |-> duration]>>
                     ELSE <<>>,
                 decoration |->
                   Some([backgroundColor |-> backgroundColor,
                         startLine |-> startLine, endLine |-> endLine,
                         timer |-> IF duration > 0 THEN Some(duration)
                                                   ELSE None])]

\* variant: a document that does not open is asked for a second time
ShowTextDocument_Retried(p, opens) ==
  IF opens THEN <<[kind |-> "showTextDocument", path |-> p]>>
           ELSE <<[kind |-> "showTextDocument", path |-> p],
                  [kind |-> "showTextDocument", path |-> p]>>

\* await vscode.window.showTextDocument(uri)
ShowTextDocument(p, opens) == <<[kind |-> "showTextDocument", path |-> p]>>

\* lightning.openFile on the item attached to shown[k], given whether the
\* workspace has a folder and whether the host opens the file
OpenFile(k, workspaceFolder, opens) ==
  /\ k \in 1..Len(shown)
  /\ shown[k].command # None
  /\ shown[k].command[1].command = "lightning.openFile"
  /\ LET item   == shown[k].command[1].arguments[1]
         failed == <<[kind |-> "error", text |-> "Failed to open file",
                      path |-> item.path]>>
         shows  == Highlight(item)
     IN  \E sound \in playSoundIfPresent(item) :
           IF ~workspaceFolder
             THEN /\ effects' = sound \o <<NoWorkspaceToResolve>>
                  /\ UNCHANGED highlights
           ELSE IF ImageOrBinary(item.path)
             THEN /\ effects' = sound \o
                       <<[kind |-> "vscode.open", path |-> item.path]>> \o
                       IF opens THEN <<>> ELSE failed
                  /\ UNCHANGED highlights
           ELSE IF ~opens
             THEN /\ effects' = sound \o ShowTextDocument(item.path, opens)
                                     \o failed
                  /\ UNCHANGED highlights
           ELSE /\ effects' = sound \o ShowTextDocument(item.path, opens)
                                   \o RevealLine(item) \o shows.effects
                /\ highlights' = highlights \o shows.decoration
                /\ Len(highlights') <= MaxHighlights
  /\ ProviderUntouched
  /\ UNCHANGED <<disk, isSoundMuted, quiz, diff>>

\* the callback of setTimeout runs: decorationType.dispose()
DisposeHighlight(i) ==
  /\ i \in 1..Len(highlights)
  /\ highlights[i].timer # None
  /\ highlights' = SubSeq(highlights, 1, i - 1) \o
                   SubSeq(highlights, i + 1, Len(highlights))
  /\ effects' = <<[kind |-> "dispose",
                   backgroundColor |-> highlights[i].backgroundColor]>>
  /\ ProviderUntouched
  /\ UNCHANGED <<disk, isSoundMuted, quiz, diff>>

\* lightning.showDialog on the item attached to shown[k]
ShowDialog(k) ==
  /\ k \in 1..Len(shown)
  /\ shown[k].command # None
  /\ shown[k].command[1].command = "lightning.showDialog"
  /\ LET item     == shown[k].command[1].arguments[1]
         severity == Or(Get(item, "severity"), "info")
     IN  \E sound \in playSoundIfPresent(item) :
           effects' = sound \o
             <<[kind |-> CASE severity = "error"   -> "error"
                           [] severity = "warning" -> "warning"
                           [] OTHER                -> "information",
                text |-> item.message]>>
  /\ ProviderUntouched
  /\ UNCHANGED <<highlights, disk, isSoundMuted, quiz, diff>>

\* lightning.openBrowser on the item attached to shown[k], given whether the
\* host opens the URL or the panel; what happens inside the panel is the
\* host's
OpenBrowser(k, opens) ==
  /\ k \in 1..Len(shown)
  /\ shown[k].command # None
  /\ shown[k].command[1].command = "lightning.openBrowser"
  /\ LET browserItem == shown[k].command[1].arguments[1]
         browserType == Or(Get(browserItem, "browserType"), "simple")
         title       == Or(Get(browserItem, "title"), browserItem.label)
         failed      == <<[kind |-> "error", text |-> "Failed to open browser"]>>
     IN  /\ browserItem.type = "browser"
         /\ \E sound \in playSoundIfPresent(browserItem) :
              IF browserType = "external"
                THEN effects' = sound \o
                       <<[kind |-> "openExternal", url |-> browserItem.url]>>
                       \o IF opens
                            THEN <<[kind |-> "information",
                                    text |-> "Opened in external browser",
                                    title |-> title]>>
                            ELSE failed
                ELSE effects' = sound \o
                       <<[kind |-> "createWebviewPanel",
                          viewType |-> "lightning-browser",
                          title |-> title, url |-> browserItem.url]>>
                       \o IF opens
                            THEN <<[kind |-> "information",
                                    text |-> "Opened in simple browser",
                                    title |-> title]>>
                            ELSE failed
  /\ ProviderUntouched
  /\ UNCHANGED <<highlights, disk, isSoundMuted, quiz, diff>>

Next ==
  \/ ResetConfig
  \/ \E filePath \in FileNames : OpenConfiguration(filePath)
  \/ \E filePath \in FileNames : SetConfigurationFile(filePath)
  \/ GetChildrenRoot
  \/ \E k \in 1..MaxChildren : GetChildren(k)

Spec == Init /\ [][Next]_vars

\* a quiz document has been loaded and its root items are listed
InitQuiz ==
  \E doc \in QuizDocuments :
    /\ disk = DiskWith(doc)
    /\ configuration = Some(doc)
    /\ context = [configLoaded |-> TRUE, soundsMuted |-> FALSE]
    /\ loads = {}
    /\ element = None
    /\ path = <<>>
    /\ shown = getChildItems(doc.items, undefined, undefined)
    /\ threw = FALSE
    /\ inherited = NoColors
    /\ effects = <<>>
    /\ isSoundMuted = FALSE
    /\ quiz = NoQuiz
    /\ diff = None
    /\ lastStarted = None
    /\ colorMap = setItemColors(clearColors, shown)
    /\ highlights = <<>>

NextQuiz ==
  \/ \E k \in 1..MaxChildren : ShowQuiz(k)
  \/ RevealDialog
  \/ \E selected \in 1..(MaxAnswers + 1) : AcceptMenu(selected)
  \/ ClickReveal
  \/ ReceiveReveal
  \/ ShowAnswers
  \/ DismissQuiz

SpecQuiz == InitQuiz /\ [][NextQuiz]_vars

\* the provider over a folder with two different documents
InitLoads ==
  InitOn({ DiskOf(docA, docB) : docA, docB \in LoadDocuments } \
         { DiskOf(doc, doc) : doc \in LoadDocuments })

SpecLoads == InitLoads /\ [][Next]_vars

\* the whole extension over the documents whose items act when activated
InitActivation == InitWith(ActivationDocuments)

NextActivation ==
  \/ Next
  \/ Activate
  \/ \E muted \in BOOLEAN : SetSoundMuted(muted)
  \/ \E k \in 1..MaxChildren : ExpandOrCollapseElement(k)
  \/ \E k \in 1..MaxChildren : PlaySoundCommand(k)
  \/ \E k \in 1..MaxChildren : \E workspaceFolder, tabOpen \in BOOLEAN :
       CloseFile(k, workspaceFolder, tabOpen)
  \/ \E k \in 1..MaxChildren :
       \E workspaceFolder, exists, opens \in BOOLEAN :
         ApplyDiff(k, workspaceFolder, exists, opens)
  \/ \E dialogResult \in {"Apply Diff", "Preview Only"} :
       \E opens \in BOOLEAN : ChooseDiff(dialogResult, opens)
  \/ DismissDiff
  \/ \E k \in 1..MaxChildren : \E workspaceFolder, exists \in BOOLEAN :
       RevertDiff(k, workspaceFolder, exists)
  \/ \E error \in BOOLEAN : GitDone(error)
  \/ NextQuiz
  \/ \E k \in 1..MaxChildren : \E workspaceFolder, opens \in BOOLEAN :
       OpenFile(k, workspaceFolder, opens)
  \/ \E i \in 1..MaxHighlights : DisposeHighlight(i)
  \/ \E k \in 1..MaxChildren : ShowDialog(k)
  \/ \E k \in 1..MaxChildren : \E opens \in BOOLEAN : OpenBrowser(k, opens)

SpecActivation == InitActivation /\ [][NextActivation]_vars

-----------------------------------------------------------------------------
(* Properties of attribute resolution and of the tree *)

\* a colour value with "not set" (absent or empty) read as undefined
ColorSet(v) == IF Truthy(v) THEN v ELSE undefined

\* the last getChildren call expanded a folder node and returned
ExpandedFolder ==
  /\ configuration # None
  /\ element # None
  /\ element[1].lightningItem # None
  /\ element[1].lightningItem[1].type = "folder"
  /\ ~threw

\* the last getChildren call listed the root items and returned them
ListedRoot ==
  /\ configuration # None
  /\ element = None
  /\ ~threw
  /\ Len(shown) = Len(configuration[1].items)

\* shown holds the render nodes of the configuration items SourceItems
ShowsItems == ExpandedFolder \/ ListedRoot

\* the configuration items the shown render nodes were made from
SourceItems == ItemsAt(configuration[1].items, path)

\* the configuration item of the j-th folder on the way to the shown nodes
Ancestor(j) == ItemAt(configuration[1].items, SubSeq(path, 1, j))

\* the decorated copy attached to the i-th shown node
Copy(i) == shown[i].lightningItem[1]

SetsNoColor(item) ==
  \A f \in {"iconColor", "labelColor", "folderIconColor", "folderLabelColor"} :
    ~Truthy(Get(item, f))

\* item sets no colour that decides its own colour `own`
SetsNoOwn(item, own, forFolder) ==
  /\ ~Truthy(Get(item, own))
  /\ item.type = "folder" => ~Truthy(Get(item, forFolder))

\* C1 (as claimed): a descendant X without a colour of its own, reached from
\* a folder F that sets folderLabelColor (folderIconColor) only through
\* folders that set no colour field, is rendered with F's override as its
\* labelColor (iconColor).
C1_TransitiveInheritance ==
  ExpandedFolder =>
    \A j \in 1..Len(path) : \A i \in 1..Len(shown) :
      LET F == Ancestor(j)
          X == SourceItems[i]
          through == \A m \in (j + 1)..Len(path) : SetsNoColor(Ancestor(m))
      IN  /\ ( Truthy(Get(F, "folderLabelColor")) /\ through
               /\ SetsNoOwn(X, "labelColor", "folderLabelColor") )
             => Copy(i).labelColor = F.folderLabelColor
          /\ ( Truthy(Get(F, "folderIconColor")) /\ through
               /\ SetsNoOwn(X, "iconColor", "folderIconColor") )
             => Copy(i).iconColor = F.folderIconColor

\* C2: an item that specifies its own iconColor (labelColor) is rendered
\* with exactly that colour, whatever its ancestors carry and at any depth.
C2_OwnColorWins ==
  ShowsItems =>
    \A i \in 1..Len(shown) :
      LET X == SourceItems[i]
      IN  /\ Truthy(Get(X, "iconColor")) =>
               /\ Copy(i).iconColor = X.iconColor
               /\ shown[i].iconPath[1].color = X.iconColor
          /\ Truthy(Get(X, "labelColor")) =>
               Copy(i).labelColor = X.labelColor

\* an item with its own icon colour, two levels below folders that carry
\* other icon colours, is on display
C2_Witness ==
  /\ ExpandedFolder
  /\ Len(path) = 2
  /\ Truthy(Get(Ancestor(1), "folderIconColor"))
  /\ Truthy(Get(Ancestor(2), "folderIconColor"))
  /\ Truthy(Get(Ancestor(2), "iconColor"))
  /\ Len(shown) = 1
  /\ Get(SourceItems[1], "iconColor") = "blue"
  /\ Copy(1).iconColor = "blue"

\* the configuration of the end-to-end example: one root folder with
\* folderIconColor set and a single file child without colours
C3_Example ==
  /\ configuration # None
  /\ Len(configuration[1].items) = 1
  /\ LET F == configuration[1].items[1]
     IN  /\ F.type = "folder"
         /\ Truthy(Get(F, "folderIconColor"))
         /\ Len(F.items) = 1
         /\ F.items[1].type = "file"
         /\ SetsNoColor(F.items[1])

\* C3: with root folder F (folderIconColor = c) holding the single file X
\* (path p, no colours), expanding F yields exactly one node, labelled X,
\* with effective iconColor c and the open-file action carrying p.
C3_EndToEnd ==
  (C3_Example /\ ExpandedFolder /\ path = <<1>>) =>
    LET F == configuration[1].items[1]
        X == F.items[1]
    IN  /\ Len(shown) = 1
        /\ shown[1].label = X.label
        /\ Copy(1).iconColor = F.folderIconColor
        /\ shown[1].iconPath[1].color = F.folderIconColor
        /\ shown[1].command # None
        /\ shown[1].command[1].command = "lightning.openFile"
        /\ shown[1].command[1].arguments = <<X>>
        /\ shown[1].command[1].arguments[1].path = X.path

C3_Witness ==
  /\ C3_Example
  /\ ExpandedFolder
  /\ path = <<1>>
  /\ shown[1].label = "X"
  /\ Copy(1).iconColor = "orange"
  /\ shown[1].command[1].arguments[1].path = "a.txt"

Precedence(item, own, forFolder, fromParent) ==
  IF Truthy(Get(item, own)) THEN item[own]
  ELSE IF item.type = "folder" /\ Truthy(Get(item, forFolder))
    THEN item[forFolder]
  ELSE IF Truthy(fromParent) THEN fromParent
  ELSE undefined

\* C5: effective iconColor = the item's iconColor, else (folders only) its
\* folderIconColor, else the colour inherited from the parent, else
\* undefined; the same for labelColor; a non-folder never uses its own
\* folderIconColor / folderLabelColor.
C5_Precedence ==
  ShowsItems =>
    \A i \in 1..Len(shown) :
      LET X == SourceItems[i]
      IN  /\ ColorSet(Copy(i).iconColor) =
               Precedence(X, "iconColor", "folderIconColor",
                          inherited.iconColor)
          /\ ColorSet(Copy(i).labelColor) =
               Precedence(X, "labelColor", "folderLabelColor",
                          inherited.labelColor)
          /\ shown[i].iconPath[1].color = ColorSet(Copy(i).iconColor)

\* a file that carries a folderIconColor of its own is shown with the
\* colour inherited from its parent instead
C5_Witness ==
  /\ ExpandedFolder
  /\ Len(shown) = 1
  /\ SourceItems[1].type = "file"
  /\ Get(SourceItems[1], "folderIconColor") = "cyan"
  /\ ~Truthy(Get(SourceItems[1], "iconColor"))
  /\ inherited.iconColor = "lime"
  /\ Copy(1).iconColor = "lime"

\* the default icons as the specification lists them
ClaimedDefaultIcon ==
  [ title |-> "event-marker", file |-> "file", dialog |-> "message",
    folder |-> "folder", diff |-> "change-set", quiz |-> "question",
    browser |-> "globe" ]

\* the default icons with the three names the specification gets wrong
\* replaced
AmendedDefaultIcon ==
  [ title |-> "symbol-event", file |-> "file",
    dialog |-> "comment-discussion", folder |-> "folder",
    diff |-> "git-pull-request", quiz |-> "question", browser |-> "globe" ]

IconsFollow(defaults) ==
  ShowsItems =>
    \A i \in 1..Len(shown) :
      LET X == SourceItems[i]
      IN  shown[i].iconPath[1].id =
            IF Truthy(Get(X, "icon")) THEN X.icon ELSE defaults[X.type]

\* C6 (as claimed): the effective icon is item.icon when set, else
\* title -> "event-marker", file -> "file", dialog -> "message",
\* folder -> "folder", diff -> "change-set", quiz -> "question",
\* browser -> "globe".
C6_ClaimedIcons == IconsFollow(ClaimedDefaultIcon)

\* C6 (amended): the effective icon is item.icon when set, else
\* title -> "symbol-event", file -> "file", dialog -> "comment-discussion",
\* folder -> "folder", diff -> "git-pull-request", quiz -> "question",
\* browser -> "globe".
C6_Icons == IconsFollow(AmendedDefaultIcon)

\* a diff without an icon next to an item with a custom icon
C6_Witness ==
  /\ ExpandedFolder
  /\ Len(shown) = 2
  /\ SourceItems[1].type = "diff"
  /\ ~Truthy(Get(SourceItems[1], "icon"))
  /\ shown[1].iconPath[1].id = "git-pull-request"
  /\ Get(SourceItems[2], "icon") = "star"
  /\ shown[2].iconPath[1].id = "star"

IsGetChildren == GetChildrenRoot \/ \E k \in 1..Len(shown) : GetChildren(k)

\* C7: no getChildren call, on the root or on a folder, changes the stored
\* configuration; inherited colours exist only on the copies attached to the
\* render nodes.
C7_ConfigurationNotMutated ==
  [][IsGetChildren => configuration' = configuration]_vars

\* a render node carries an inherited colour that its configuration item
\* does not have
C7_Witness ==
  /\ ExpandedFolder
  /\ Len(shown) = 1
  /\ "iconColor" \notin DOMAIN SourceItems[1]
  /\ Copy(1).iconColor = "orange"
  /\ configuration[1] = disk["a.json"].value

\* C8: getChildren on a folder node returns one node per child item, in the
\* configuration's order and with the same labels; on any other node
\* (the bootstrap node included) it returns the empty sequence; folder nodes
\* are created collapsed, all other nodes are not expandable.
C8_ChildrenOfNode ==
  /\ ExpandedFolder =>
       /\ Len(shown) = Len(SourceItems)
       /\ \A i \in 1..Len(shown) : shown[i].label = SourceItems[i].label
  /\ ( /\ element # None
       /\ \/ element[1].lightningItem = None
          \/ element[1].lightningItem[1].type # "folder" )
     => shown = <<>> /\ ~threw
  /\ \A i \in 1..Len(shown) :
       shown[i].collapsibleState =
         IF shown[i].lightningItem # None /\ Copy(i).type = "folder"
           THEN "Collapsed" ELSE "None"

\* a folder with two children is expanded: a leaf and a folder, in order
C8_Witness ==
  /\ ExpandedFolder
  /\ Len(shown) = 2
  /\ shown[1].label = "A" /\ shown[1].collapsibleState = "None"
  /\ shown[2].label = "B" /\ shown[2].collapsibleState = "Collapsed"

\* the action the dispatch rules give to item X
ClaimedAction(X) ==
  CASE X.type = "title" ->
         IF Truthy(Get(X, "soundPath")) THEN "lightning.playSound" ELSE "none"
    [] X.type = "folder"  -> "none"
    [] X.type = "file"    -> "lightning.openFile"
    [] X.type = "dialog"  -> "lightning.showDialog"
    [] X.type = "diff"    -> "lightning.applyDiff"
    [] X.type = "quiz"    -> "lightning.showQuiz"
    [] X.type = "browser" -> "lightning.openBrowser"

\* C9: over the 7 item types dispatch never throws; a title gets the
\* play-sound action exactly when it has a soundPath, a folder gets none,
\* and file, dialog, diff, quiz and browser get the action of their kind,
\* carrying the item.
C9_Dispatch ==
  /\ ( /\ configuration # None
       /\ element # None => ( /\ element[1].lightningItem # None
                              /\ element[1].lightningItem[1].type = "folder" )
       /\ \A i \in 1..Len(SourceItems) : SourceItems[i].type \in ItemTypes )
     => ~threw
  /\ ShowsItems =>
       \A i \in 1..Len(shown) :
         LET X == SourceItems[i]
         IN  IF ClaimedAction(X) = "none"
               THEN shown[i].command = None
               ELSE /\ shown[i].command # None
                    /\ shown[i].command[1].command = ClaimedAction(X)
                    /\ shown[i].command[1].arguments = <<X>>

\* a title with a soundPath next to a title without one
C9_Witness ==
  /\ ExpandedFolder
  /\ Len(shown) = 2
  /\ SourceItems[1].type = "title" /\ SourceItems[2].type = "title"
  /\ Get(SourceItems[1], "soundPath") = "ding.wav"
  /\ shown[1].command # None
  /\ shown[2].command = None

\* s and t hold the same elements, each as often in s as in t
IsPermutation(s, t) ==
  /\ Len(s) = Len(t)
  /\ \E f \in [1..Len(s) -> 1..Len(s)] :
       /\ \A i, j \in 1..Len(s) : i # j => f[i] # f[j]
       /\ \A i \in 1..Len(s) : s[i] = t[f[i]]

\* C10: whatever the random choices, the displayed answers are a
\* permutation of correctAnswers followed by wrongAnswers: as many as
\* |correctAnswers| + |wrongAnswers|, each occurrence once, each with the
\* correctness tag of the list it came from.
C10_ShuffleIsPermutation ==
  quiz.phase # "none" =>
    LET item == quiz.quizItem
    IN  /\ Len(quiz.allAnswers) =
             Len(item.correctAnswers) + Len(item.wrongAnswers)
        /\ IsPermutation(quiz.allAnswers, CombineAnswers(item))
        /\ Len(quiz.rendered) = Len(quiz.allAnswers)
        /\ \A i \in 1..Len(quiz.rendered) :
             quiz.rendered[i].text = quiz.allAnswers[i].text

\* three answers are on display in an order that is not the combined one
C10_Witness ==
  /\ quiz.phase # "none"
  /\ Len(quiz.allAnswers) = 3
  /\ quiz.allAnswers # CombineAnswers(quiz.quizItem)
  /\ quiz.allAnswers[1].correct = FALSE

-----------------------------------------------------------------------------
(* Properties of the quiz reveal *)

CorrectMarkers == {"U+2705", "$(check)", "U+2713"}

WrongMarkers == {"U+274C", "$(x)", "U+2717"}

\* no line carries a correctness marker
NoMarkers(lines) ==
  \A i \in 1..Len(lines) : lines[i].icon \notin CorrectMarkers \cup WrongMarkers

\* line i shows answers[i] with the marker of its tag
MarkersMatch(lines, answers) ==
  /\ Len(lines) = Len(answers)
  /\ \A i \in 1..Len(lines) :
       /\ lines[i].text = answers[i].text
       /\ lines[i].icon \in
            IF answers[i].correct THEN CorrectMarkers ELSE WrongMarkers

\* the texts of the lines, in order
TextsOf(lines) == [ i \in 1..Len(lines) |-> lines[i].text ]

\* the playSound calls recorded in a trace
SoundCalls(trace) ==
  { i \in 1..Len(trace) : trace[i].kind = "playSound" }

\* C11: in each display mode the lines on display before the reveal carry
\* no correctness marker, and the lines displayed by the reveal carry, for
\* every answer, the marker of its tag.  In the webview the reveal is on
\* display once the page has handled the showAnswers message; until then
\* that message, carrying the tagged answers, is on its way.
C11_MarkersOnlyAfterReveal ==
  QuizOnDisplay =>
    /\ quiz.mode \in {"dialog", "menu", "webview"}
    /\ NoMarkers(quiz.rendered)
    /\ quiz.phase = "Unrevealed" => quiz.revealed = None
    /\ quiz.phase = "Revealed" =>
         IF quiz.revealed # None
           THEN MarkersMatch(quiz.revealed[1], quiz.allAnswers)
           ELSE /\ quiz.mode = "webview"
                /\ quiz.toWebview # <<>>
                /\ \A m \in 1..Len(quiz.toWebview) :
                     quiz.toWebview[m].answers = quiz.allAnswers

\* the page of a webview quiz shows a correct and a wrong answer revealed
C11_Witness ==
  /\ quiz.phase = "Revealed"
  /\ quiz.mode = "webview"
  /\ quiz.revealed # None
  /\ \E i, j \in 1..Len(quiz.allAnswers) :
       quiz.allAnswers[i].correct /\ ~quiz.allAnswers[j].correct

\* C12 (as claimed): once a quiz is Revealed, no later step of the same
\* invocation plays a reveal sound or sends or shows the answers again.
C12_RevealedIsTerminal ==
  [][ (quiz.phase = "Revealed" /\ quiz'.phase = "Revealed") =>
        /\ quiz'.reveals = quiz.reveals
        /\ SoundCalls(effects') = {}
        /\ \A i \in 1..Len(effects') : effects'[i].kind # "postMessage" ]_vars

\* C13: the answers are shown in one order throughout an invocation: the
\* lines shown before the reveal, the lines shown by the reveal and the
\* answers sent to the page all list the texts of allAnswers in its order.
C13_OrderFixed ==
  QuizOnDisplay =>
    /\ TextsOf(quiz.rendered) = TextsOf(quiz.allAnswers)
    /\ quiz.revealed # None =>
         TextsOf(quiz.revealed[1]) = TextsOf(quiz.rendered)
    /\ \A m \in 1..Len(quiz.toWebview) :
         TextsOf(quiz.toWebview[m].answers) = TextsOf(quiz.rendered)

\* a dialog quiz is revealed whose three answers are not in combined order
\* and do not read the same backwards
C13_Witness ==
  /\ quiz.phase = "Revealed"
  /\ quiz.mode = "dialog"
  /\ quiz.revealed # None
  /\ Len(quiz.allAnswers) = 3
  /\ quiz.allAnswers # CombineAnswers(quiz.quizItem)
  /\ quiz.allAnswers[1].text # quiz.allAnswers[3].text

\* a step of the invocation on display that runs the reveal code
IsRevealStep ==
  /\ QuizOnDisplay
  /\ QuizOnDisplay'
  /\ quiz'.reveals = quiz.reveals + 1

\* C14: a reveal step calls playSound(revealSoundPath) exactly when the quiz
\* item has a revealSoundPath, and a step that leaves or ends an Unrevealed
\* quiz without revealing it (a dismissal, the choice of an answer, a click
\* not yet delivered) calls playSound not at all.
C14_RevealSound ==
  [][ /\ IsRevealStep =>
           IF Truthy(Get(quiz.quizItem, "revealSoundPath"))
             THEN /\ Cardinality(SoundCalls(effects')) = 1
                  /\ \A i \in SoundCalls(effects') :
                       effects'[i].soundPath = quiz.quizItem.revealSoundPath
             ELSE SoundCalls(effects') = {}
      /\ (quiz.phase = "Unrevealed" /\ ~IsRevealStep) =>
           SoundCalls(effects') = {} ]_vars

\* a menu quiz with a revealSoundPath has just been revealed and the sound
\* process was started
C14_Witness ==
  /\ quiz.phase = "Revealed"
  /\ quiz.mode = "menu"
  /\ Truthy(Get(quiz.quizItem, "revealSoundPath"))
  /\ \E i \in 1..Len(effects) :
       effects[i].kind = "exec" /\ effects[i].soundPath = "tada.wav"

-----------------------------------------------------------------------------
(* Properties of the mute flag and of diff activation *)

\* a trace entry that playSound leaves after its mute check: a read of the
\* workspace or of the file system, one of its error messages, the player
FromPlaySound(e) ==
  \/ e.kind \in {"workspaceFolders", "existsSync"}
  \/ e.kind = "exec" /\ "soundPath" \in DOMAIN e
  \/ e.kind = "error" /\
       e.text \in {"No workspace folder found", "Sound file not found"}

\* C15: while the flag is true, no handler run (activation of an item,
\* expansion or collapse of a folder, quiz reveal, file close, diff revert)
\* leaves anything of playSound but the call: no process, no error message,
\* no read of the workspace folders, no file-system check, whether or not
\* the sound file exists.
C15_MutedPlaysNothing ==
  [][ isSoundMuted =>
        \A i \in 1..Len(effects') : ~FromPlaySound(effects'[i]) ]_vars

\* a diff was reverted while the sounds were muted: playSound was called
\* with the revertSoundPath
C15_Witness ==
  /\ isSoundMuted
  /\ diff # None
  /\ diff[1].state = "Reverted"
  /\ \E i \in 1..Len(effects) :
       effects[i].kind = "playSound" /\ effects[i].soundPath = "undo.wav"

\* the step is an activation of the extension
IsActivation ==
  /\ effects' # <<>>
  /\ effects'[1] = [kind |-> "log", text |-> "Lightning extension is now active!"]

\* C16: after every activation the flag read by playSound is false, whatever
\* it was before, and so is the context key lightning.soundsMuted.
C16_UnmutedAfterActivation ==
  [][ IsActivation =>
        /\ getSoundMuted' = FALSE
        /\ context'.soundsMuted = getSoundMuted' ]_vars

\* the extension has just been activated
C16_Witness ==
  /\ effects # <<>>
  /\ effects[1] = [kind |-> "log", text |-> "Lightning extension is now active!"]
  /\ ~isSoundMuted
  /\ context.soundsMuted = FALSE
  /\ configuration = None

\* a git apply or the opening of the diff for preview
DiffEffect(e) ==
  \/ e.kind = "exec" /\ Get(e, "command") = "git apply"
  \/ e.kind = "showTextDocument"

\* an applyDiff call on an item without action field
NoAction(call) ==
  call.command = "lightning.applyDiff" /\ "action" \notin DOMAIN call.item

\* the step starts a call of applyDiff or revertDiff
StartsDiff == ~DiffInProgress /\ diff' # None /\ diff' # diff

\* C17: activating a diff item without action field either fails with an
\* error message (no workspace folder, no diff file) or opens one dialog
\* with exactly the two choices apply and preview, and neither runs git
\* apply nor opens the diff; those happen only in the step in which the user
\* picks one of the two choices, and as picked.
C17_PromptBeforeEffect ==
  [][ /\ (StartsDiff /\ NoAction(diff'[1])) =>
           /\ diff'[1].state \in {"Prompt", "Failed"}
           /\ \A i \in 1..Len(effects') : ~DiffEffect(effects'[i])
           /\ diff'[1].state = "Prompt" =>
                /\ Cardinality({ i \in 1..Len(effects') :
                                   effects'[i].kind = "warning" }) = 1
                /\ \A i \in 1..Len(effects') :
                     effects'[i].kind = "warning" =>
                       effects'[i].choices = <<"Apply Diff", "Preview Only">>
           /\ diff'[1].state = "Failed" =>
                \E i \in 1..Len(effects') : effects'[i].kind = "error"
      /\ (/\ diff' # None
          /\ NoAction(diff'[1])
          /\ \E i \in 1..Len(effects') : DiffEffect(effects'[i])) =>
           /\ diff # None
           /\ diff[1].state = "Prompt"
           /\ diff[1].item = diff'[1].item
           /\ diff'[1].picked \in {"Apply Diff", "Preview Only"}
           /\ \A i \in 1..Len(effects') :
                DiffEffect(effects'[i]) =>
                  (effects'[i].kind = "exec") =
                    (diff'[1].picked = "Apply Diff") ]_vars

\* the dialog of a diff item without action is open
C17_Witness ==
  /\ diff # None
  /\ NoAction(diff[1])
  /\ diff[1].state = "Prompt"
  /\ \E i \in 1..Len(effects) : effects[i].kind = "warning"

\* C18: the step in which the user dismisses the apply-or-preview dialog
\* requests nothing (no git apply, no document, no message) and leaves the
\* configuration, the mute flag, the context keys and the tree as they were.
C18_DismissIsNoOp ==
  [][ (/\ diff # None
       /\ diff[1].state = "Prompt"
       /\ diff' # None
       /\ diff'[1].state = "Cancelled") =>
        /\ effects' = <<>>
        /\ UNCHANGED <<lastStarted, colorMap, highlights, disk, configuration,
                       context, loads, element, path, shown, threw, inherited,
                       isSoundMuted, quiz>> ]_vars

\* the dialog was dismissed while a configuration was loaded and the sounds
\* were muted
C18_Witness ==
  /\ diff # None
  /\ diff[1].state = "Cancelled"
  /\ NoAction(diff[1])
  /\ configuration # None
  /\ isSoundMuted

-----------------------------------------------------------------------------
(* Properties of the configuration load *)

\* the step completes a load of a file that cannot be read or parsed
IsFailedLoad ==
  \E filePath \in loads :
    /\ loads' = loads \ {filePath}
    /\ disk[filePath].kind # "json"

\* C19: a load that fails because the file cannot be read or its text does
\* not parse shows an error message and leaves the configuration, the
\* configLoaded key and the tree as they were: a loaded configuration stays
\* with the same items, and without one the root keeps listing the
\* "Open configuration" node.
C19_FailedLoadKeepsState ==
  [][ IsFailedLoad =>
        /\ \E i \in 1..Len(effects') :
             /\ effects'[i].kind = "error"
             /\ effects'[i].text = "Failed to load configuration file"
        /\ UNCHANGED <<configuration, context, element, path, shown, threw,
                       inherited, isSoundMuted>>
        /\ (configuration' = None /\ element' = None /\ shown' # <<>>) =>
             shown' = <<OpenConfigurationNode>> ]_vars

\* a load has just failed while a configuration with items was loaded and
\* listed
C19_Witness ==
  /\ configuration # None
  /\ shown # <<>>
  /\ effects # <<>>
  /\ effects[1].kind = "error"
  /\ effects[1].text = "Failed to load configuration file"

\* the fields an item of each type must have
RequiredFields(type) ==
  {"type", "label"} \cup
  CASE type = "file"    -> {"path"}
    [] type = "dialog"  -> {"message"}
    [] type = "folder"  -> {"items"}
    [] type = "diff"    -> {"diffPath"}
    [] type = "quiz"    -> {"question", "correctAnswers", "wrongAnswers"}
    [] type = "browser" -> {"url"}
    [] OTHER            -> {}

RECURSIVE ItemsConform(_)
\* every item has one of the 7 types and the required fields of its type
ItemsConform(items) ==
  \A i \in 1..Len(items) :
    /\ "type" \in DOMAIN items[i]
    /\ items[i].type \in ItemTypes
    /\ RequiredFields(items[i].type) \subseteq DOMAIN items[i]
    /\ items[i].type = "folder" => ItemsConform(items[i].items)

Conforms(config) ==
  /\ {"title", "items"} \subseteq DOMAIN config
  /\ ItemsConform(config.items)

\* C20 (as claimed): a document that does not conform to the schema never
\* becomes the active configuration.
C20_NonConformingRejected ==
  configuration # None => Conforms(configuration[1])

-----------------------------------------------------------------------------
(* Properties of the configuration lifecycle *)

\* the step completes the load of filePath, whose text parses
IsLoadOf(filePath) ==
  /\ filePath \in loads
  /\ loads' = loads \ {filePath}
  /\ disk[filePath].kind = "json"

\* the step is a run of lightning.resetConfig
IsReset == effects' = <<SetContext("lightning.configLoaded", FALSE)>>

\* the step is a getChildren call on the root
IsRootListing ==
  effects' = <<>> /\ element' = None /\ path' = <<>> /\ loads' = loads

\* the nodes returned by the step are made from items, one for one and in
\* order
ReturnsNodesOf(items) ==
  /\ ~threw'
  /\ Len(shown') = Len(items)
  /\ \A i \in 1..Len(items) :
       /\ shown'[i].label = items[i].label
       /\ shown'[i].lightningItem # None
       /\ shown'[i].lightningItem[1].type = items[i].type
       /\ Get(shown'[i].lightningItem[1], "path") = Get(items[i], "path")

\* C21: at first no configuration is loaded; a load that succeeds makes the
\* document of its file the configuration, with nothing of the previous one;
\* a reset leaves no configuration; and a getChildren call on the root
\* returns the single "Open configuration" node while no configuration is
\* loaded, and otherwise one node per root item of the loaded document, in
\* the document's order.
C21_Lifecycle ==
  /\ configuration = None
  /\ [][ /\ \A filePath \in DOMAIN disk :
            (IsLoadOf(filePath) /\ ~Falsy(disk[filePath].value)) =>
              configuration' = Some(disk[filePath].value)
         /\ IsReset => configuration' = None
         /\ (IsRootListing /\ configuration = None) =>
              shown' = <<OpenConfigurationNode>>
         /\ (IsRootListing /\ configuration # None
                           /\ ~Falsy(configuration[1])) =>
              \E filePath \in DOMAIN disk :
                /\ disk[filePath].kind = "json"
                /\ configuration[1] = disk[filePath].value
                /\ ReturnsNodesOf(disk[filePath].value.items) ]_vars

\* b.json is the configuration, no load is in progress, and the root lists
\* the two file items of b.json
C21_Witness ==
  /\ configuration = Some(disk["b.json"].value)
  /\ disk["a.json"].value \notin FalsyPrimitives
  /\ element = None
  /\ Len(shown) = 2
  /\ shown[1].label = "X" /\ shown[2].label = "Y"
  /\ loads = {}
  /\ colorMap # clearColors

-----------------------------------------------------------------------------
(* Properties of loads that overlap each other or a reset *)

\* the step completes the load of filePath
IsCompletionOf(filePath) == filePath \in loads /\ loads' = loads \ {filePath}

\* the text of filePath is a JSON object
IsDocument(filePath) ==
  disk[filePath].kind = "json" /\ ~Falsy(disk[filePath].value)

\* C26 (as claimed): when the loads that were in progress together have all
\* completed, the configuration is the document of the file that was picked
\* last, in whatever order the reads ended.
C26_LastStartedWins ==
  [][ \A filePath \in loads :
        ( /\ IsCompletionOf(filePath)
          /\ loads' = {}
          /\ lastStarted # None
          /\ IsDocument(lastStarted[1])
          /\ IsDocument(filePath) ) =>
        configuration' = Some(disk[lastStarted[1]].value) ]_vars

\* the last handler that ran is that of lightning.resetConfig
AfterReset == effects = <<SetContext("lightning.configLoaded", FALSE)>>

\* C27 (as claimed): a load that was started before a reset and completes
\* after it does not bring a configuration back: the provider is still
\* without configuration, and the configLoaded key still false, after the
\* completion.
C27_StaleLoadIgnored ==
  [][ \A filePath \in loads :
        (AfterReset /\ IsCompletionOf(filePath) /\ IsDocument(filePath)) =>
          /\ configuration' = None
          /\ context'.configLoaded = FALSE ]_vars

\* C28 (as claimed): the handler of lightning.openConfiguration shows
\* "Loaded configuration" for a file only when the document of that file
\* has become the configuration, and then shows no error.
C28_LoadedOnlyOnSuccess ==
  [][ \A filePath \in loads :
        ( /\ IsCompletionOf(filePath)
          /\ \E i \in 1..Len(effects') :
               effects'[i] = LoadedMessage(filePath) ) =>
        /\ disk[filePath].kind = "json"
        /\ configuration' = Some(disk[filePath].value)
        /\ \A i \in 1..Len(effects') : effects'[i].kind # "error" ]_vars

\* C29 (as claimed): hasConfiguration(), the context key
\* lightning.configLoaded and the root listing agree in every state: the
\* root lists something else than the "Open configuration" node exactly
\* when hasConfiguration() is true, and the key is true exactly then.
C29_ViewsAgree ==
  /\ context.configLoaded = hasConfiguration
  /\ (element = None /\ ~threw /\ shown # <<>>) =>
       ((shown # <<OpenConfigurationNode>>) = hasConfiguration)

-----------------------------------------------------------------------------
(* Properties of the label decorations *)

\* C30 (as claimed): every node on display that has a resource URI is
\* decorated with the effective labelColor of its own item, and with no
\* colour when its item has none.
C30_OwnLabelColor ==
  \A i \in 1..Len(shown) :
    (shown[i].lightningItem # None /\ shown[i].resourceUri # None) =>
      provideFileDecoration(shown[i].resourceUri[1])
        = ColorSet(Get(Copy(i), "labelColor"))

-----------------------------------------------------------------------------
(* Properties of the activation of items *)

\* C22: the configuration changes only in a step that completes a load, in
\* a reset and in a new activation of the extension: no command on an item
\* (open or close a file, show a dialog, apply or revert a diff with its
\* dialog and its git callback, show or reveal a quiz, open a browser, play
\* a sound, dispose a highlight) changes it, whether what it requests
\* succeeds or fails.
C22_ItemCommandsKeepConfiguration ==
  [][ configuration' # configuration =>
        \/ \E filePath \in loads : IsLoadOf(filePath)
        \/ IsReset
        \/ IsActivation ]_vars

\* a file could not be opened while a configuration was loaded: the error
\* was reported and the configuration is the loaded document
C22_Witness ==
  /\ configuration = Some(disk["a.json"].value)
  /\ shown # <<>>
  /\ \E i \in 1..Len(effects) :
       effects[i].kind = "error" /\ effects[i].text = "Failed to open file"

\* the step is the activation of the item attached to a node on display
ItemActivation ==
  \E k \in 1..Len(shown) :
    \/ ShowDialog(k)
    \/ ShowQuiz(k)
    \/ \E opens \in BOOLEAN : OpenBrowser(k, opens)
    \/ \E workspaceFolder, opens \in BOOLEAN :
         OpenFile(k, workspaceFolder, opens)
    \/ \E workspaceFolder, exists, opens \in BOOLEAN :
         ApplyDiff(k, workspaceFolder, exists, opens)

\* git apply is started
GitApply(e) == e.kind = "exec" /\ Get(e, "command") = "git apply"

\* the sound player is started
PlayerCall(e) == e.kind = "exec" /\ "soundPath" \in DOMAIN e

\* the call an item is activated for: a document or a file opened, a browser
\* or panel opened, git apply started, the message of a dialog item shown
PrimaryCall(e) ==
  \/ e.kind \in {"showTextDocument", "vscode.open", "openExternal",
                 "createWebviewPanel"}
  \/ GitApply(e)
  \/ e.kind \in {"information", "warning", "error"} /\ e.text = "hello"

\* the report of a failure of the activation itself
ErrorReport(e) ==
  /\ e.kind = "error"
  /\ e.text \in {"No workspace folder found to resolve relative path",
                 "Diff file not found", "Failed to process diff",
                 "Failed to apply diff", "Failed to open file",
                 "Failed to open browser"}

\* how many primary calls the step makes; a quiz put on display is one
PrimaryCalls ==
  Cardinality({ i \in 1..Len(effects') : PrimaryCall(effects'[i]) })
  + (IF quiz'.phase = "Unrevealed" /\ quiz.phase # "Unrevealed" THEN 1 ELSE 0)

PlayerCalls ==
  Cardinality({ i \in 1..Len(effects') : PlayerCall(effects'[i]) })

\* C23 (as claimed): one activation of an item makes one call of one
\* collaborator: the calls made by the step, the sound player included, are
\* never more than one.
C23_OneEffect ==
  [][ ItemActivation => PrimaryCalls + PlayerCalls <= 1 ]_vars

\* C23 (amended): an activation calls playSound at most once, before
\* anything else, and makes at most one primary call: exactly one unless
\* it ends on a failed precondition or waits for the choice of a dialog.
\* Nothing is tried again: no primary call follows the report of a failure,
\* and outside an activation and the choice of the diff dialog no step
\* makes a primary call.
C23_OnePrimaryEffect ==
  [][ /\ ItemActivation =>
           /\ PrimaryCalls <= 1
           /\ PlayerCalls <= 1
           /\ Cardinality(SoundCalls(effects')) <= 1
           /\ \A i \in SoundCalls(effects') : i = 1
           /\ ( /\ \A i \in 1..Len(effects') :
                     ErrorReport(effects'[i]) =>
                       \E j \in 1..(i - 1) : PrimaryCall(effects'[j])
                /\ diff' = None \/ diff'[1].state # "Prompt" )
              => PrimaryCalls = 1
      /\ \A i, j \in 1..Len(effects') :
           (i < j /\ ErrorReport(effects'[i])) => ~PrimaryCall(effects'[j])
      /\ ( /\ ~ItemActivation
           /\ ~(diff # None /\ diff[1].state = "Prompt") )
         => PrimaryCalls = 0 ]_vars

\* a file item with a sound was activated: the player was started, then the
\* document was opened
C23_Witness ==
  /\ Len(effects) >= 2
  /\ PlayerCall(effects[Len(effects) - 1])
  /\ effects[Len(effects)] = [kind |-> "showTextDocument", path |-> "a.txt"]
  /\ effects[1].kind = "playSound"

\* the timer openFile must have set for a decoration highlight of item
ExpectedTimer(item) ==
  IF "highlightDuration" \notin DOMAIN item THEN Some(5000)
  ELSE IF item.highlightDuration > 0 THEN Some(item.highlightDuration)
  ELSE None

\* the decorations without a timer, in order
Permanent(hs) == SelectSeq(hs, LAMBDA h : h.timer = None)

\* s is the beginning of t
IsPrefix(s, t) == Len(s) <= Len(t) /\ s = SubSeq(t, 1, Len(s))

\* C24: opening a text file whose item has a highlightStartLine and not the
\* highlightType "selection" puts one decoration on the editor and sets one
\* timer that disposes it, with the delay highlightDuration when that is
\* above 0 and 5000 when it is absent, and sets no timer when it is 0; with
\* the type "selection" the range becomes the selection and no decoration
\* and no timer is made.  A decoration goes away only when its timer runs
\* (or with the extension host): one without a timer stays.
C24_HighlightRemoval ==
  [][ /\ \A k \in 1..Len(shown) : \A workspaceFolder, opens \in BOOLEAN :
           OpenFile(k, workspaceFolder, opens) =>
             LET item    == shown[k].command[1].arguments[1]
                 opened  == workspaceFolder /\ opens
                              /\ ~ImageOrBinary(item.path)
                 timeouts == { i \in 1..Len(effects') :
                                 effects'[i].kind = "setTimeout" }
             IN  IF opened /\ "highlightStartLine" \in DOMAIN item
                           /\ Get(item, "highlightType") # "selection"
                   THEN /\ Len(highlights') = Len(highlights) + 1
                        /\ SubSeq(highlights', 1, Len(highlights)) = highlights
                        /\ highlights'[Len(highlights')].timer
                             = ExpectedTimer(item)
                        /\ Cardinality(timeouts) =
                             IF ExpectedTimer(item) = None THEN 0 ELSE 1
                        /\ \A i \in timeouts :
                             Some(effects'[i].delay) = ExpectedTimer(item)
                   ELSE /\ highlights' = highlights
                        /\ timeouts = {}
                        /\ \A i \in 1..Len(effects') :
                             effects'[i].kind # "setDecorations"
                        /\ (opened /\ "highlightStartLine" \in DOMAIN item) =>
                             \E i \in 1..Len(effects') :
                               /\ effects'[i].kind = "selection"
                               /\ effects'[i].startLine =
                                    Max0(item.highlightStartLine - 1)
      /\ ~IsActivation => IsPrefix(Permanent(highlights), Permanent(highlights'))
      /\ (Len(highlights') < Len(highlights) /\ ~IsActivation) =>
           \E i \in 1..Len(highlights) :
             /\ highlights[i].timer # None
             /\ highlights' = SubSeq(highlights, 1, i - 1) \o
                              SubSeq(highlights, i + 1, Len(highlights)) ]_vars

\* a file whose highlight has the duration 0 was opened twice: both
\* decorations are on the editor and no timer was set
C24_Witness ==
  /\ Len(highlights) = 2
  /\ highlights[1].timer = None
  /\ highlights[2].timer = None
  /\ \E i \in 1..Len(effects) : effects[i].kind = "setDecorations"
  /\ \A i \in 1..Len(effects) : effects[i].kind # "setTimeout"

\* C25: activating a diff item whose action is set opens no dialog: with
\* "apply" it starts git apply once and opens nothing, with "preview" it
\* opens the diff file once and starts no git.  Whatever the action, set or
\* not, without a workspace folder or without the diff file the activation
\* ends with an error message and with no dialog, no git and no document.
\* Nothing that follows in the same call starts git apply or opens the diff
\* again.
C25_DiffWithAction ==
  [][ /\ \A k \in 1..Len(shown) : \A workspaceFolder, exists, opens \in BOOLEAN :
           ApplyDiff(k, workspaceFolder, exists, opens) =>
             LET item    == shown[k].command[1].arguments[1]
                 trace   == effects'
                 prompts == { i \in 1..Len(trace) : trace[i].kind = "warning" }
                 gits    == { i \in 1..Len(trace) : GitApply(trace[i]) }
                 docs    == { i \in 1..Len(trace) :
                                trace[i].kind = "showTextDocument" }
             IN  IF ~workspaceFolder \/ ~exists
                   THEN /\ prompts = {} /\ gits = {} /\ docs = {}
                        /\ trace # <<>>
                        /\ trace[Len(trace)].kind = "error"
                        /\ diff'[1].state = "Failed"
                 ELSE
                   /\ Get(item, "action") = "apply" =>
                        /\ prompts = {} /\ docs = {}
                        /\ Cardinality(gits) = 1
                        /\ diff'[1].state = "Applying"
                   /\ Get(item, "action") = "preview" =>
                        /\ prompts = {} /\ gits = {}
                        /\ Cardinality(docs) = 1
                        /\ \A i \in docs : trace[i].path = item.diffPath
      /\ ( /\ ~ItemActivation
           /\ ~(diff # None /\ diff[1].state = "Prompt") )
         => \A i \in 1..Len(effects') : ~DiffEffect(effects'[i]) ]_vars

\* a diff item with the action "preview" was activated and its diff file is
\* open; no dialog was shown
C25_Witness ==
  /\ diff # None
  /\ diff[1].command = "lightning.applyDiff"
  /\ Get(diff[1].item, "action") = "preview"
  /\ diff[1].state = "Previewed"
  /\ diff[1].picked = undefined
  /\ \E i \in 1..Len(effects) : effects[i].kind = "showTextDocument"
  /\ \A i \in 1..Len(effects) : effects[i].kind # "warning"

====
